---- MODULE Spec2Model ----
(***************************************************************************)
(* Commit History Replay Engine of vibource: the tree differ               *)
(* (services/git.ts, two strategies), the file tree state machine          *)
(* (utils/fileTree.ts), and the snapshot store (services/cache.ts).        *)
(*                                                                         *)
(* Paths are sequences of entry names: 'a/b.txt' is <<"a", "b.txt">> and   *)
(* the empty string '' is <<>>; split('/') and join('/') act on those.     *)
(*                                                                         *)
(* Object identifiers are content addresses.  The OID of a tree is the set *)
(* of <<path, content>> pairs of the blobs below it, the OID of a blob     *)
(* with content c is {<< <<>>, c >>}: equal OIDs are equal contents.       *)
(***************************************************************************)
EXTENDS Integers, Sequences, FiniteSets, TLC

VARIABLES
    unreadable,   \* OIDs for which git.readTree fails (missing objects)
    dOld,         \* differ input oldTreeOid: <<>> is null, <<oid>> otherwise
    dNew,         \* differ input newTreeOid
    dPrefix,      \* differ input basePath
    dInc,         \* outcome of diffTreesIncremental on the inputs
    dFlat         \* outcome of walkTree + diffTrees on the inputs

diffVars == <<unreadable, dOld, dNew, dPrefix, dInc, dFlat>>

VARIABLES
    treeRef,        \* treeRef.current: the live file tree (root FileNode)
    authorsRef,     \* authorsRef.current: Map key -> Author, insertion order
    modifiedFiles,  \* what the last applyCommitToTree returned (node paths)
    applied,        \* how many commits were applied to the live tree
    lastCommit,     \* the commit handed to the last applyCommitToTree
    preTree,        \* the live tree before the last operation on it
    lastOp,         \* the last operation on the live tree
    thrown          \* "none", or the exception the last handler raised

treeVars == <<treeRef, authorsRef, modifiedFiles, applied, lastCommit, preTree,
              lastOp, thrown>>

VARIABLES
    commits,             \* the commit list of the session, oldest first
    diffIndex,           \* commits the background diff loop has gone through
    previousTree,        \* previousTree of the background diff loop
    treeCache,           \* treeCache: Map tree OID -> Map path -> blob OID
    currentCommitIndex,  \* index of the last commit applied, -1 before any
    treeSnapshots,       \* the treeSnapshots object store
    now,                 \* Date.now(), in days
    seek                 \* <<>>, or the last seek served by the snapshot store

replayVars == <<commits, diffIndex, previousTree, treeCache,
                currentCommitIndex, treeSnapshots, now, seek>>

VARIABLES
    indexedDBOpens,      \* whether indexedDB.open succeeds in this session
    dbPromise,           \* dbPromise: "null", "resolved" or "rejected"
    commitsStore,        \* the commits object store (records by key)
    nodePositionsStore,  \* the nodePositions object store (records by key)
    fileContentsStore,   \* the fileContents object store (records by key)
    cacheCall,           \* the last call of a cache function and how it settled
    cacheWrites,         \* how many calls have changed an object store
    fileCache            \* the file viewer's fileCache: <<key, content>> in
                         \* insertion order

storeVars == <<indexedDBOpens, dbPromise, commitsStore, nodePositionsStore,
               fileContentsStore, cacheCall, cacheWrites, fileCache>>

VARIABLES
    appState,              \* 'input', 'loading' or 'visualizing'
    isPlaying,             \* the playback runs
    error,                 \* "null", or the message the application shows
    urlAt,                 \* urlParams.at: <<>> is undefined, <<n>> otherwise
    diffComputationAbort,  \* 0 is null, t the abort handle of the task of call t
    tasks,                 \* the calls of fetchCommitsWithFiles, in call order
    owner,                 \* 0, or the call whose array the commits state holds
    lostCommits,           \* shas for which git.readCommit fails
    taskSteps              \* how often the event loop has resumed a background task

sessionVars == <<appState, isPlaying, error, urlAt, diffComputationAbort, tasks,
                 owner, lostCommits, taskSteps>>

VARIABLES
    filePath,            \* the filePath prop of the file viewer: <<>> is null
    fileContent,         \* fileContent of the viewer: <<>> is null
    previousContent,     \* previousContent of the viewer: <<>> is null
    loading,             \* loading of the viewer
    viewerError,         \* error of the viewer: "null", or the message
    loads,               \* the calls of loadContent, in call order
    prefetches,          \* the calls of prefetch, in call order
    abortControllerRef,  \* 0 is null, l the AbortController of load l
    prefetchAbortRef     \* 0 is null, p the AbortController of prefetch p

viewVars == <<filePath, fileContent, previousContent, loading, viewerError,
              loads, prefetches, abortControllerRef, prefetchAbortRef>>

vars == <<diffVars, treeVars, replayVars, storeVars, sessionVars, viewVars>>

(***************************************************************************)
(* Bounds of the object universe.                                          *)
(***************************************************************************)
NumBlobs == 2
MaxUnreadable == 1

\* git keeps the entries of a tree sorted by name.
NameOrder == <<"a", "b">>
Names == {NameOrder[i] : i \in 1..Len(NameOrder)}
BlobContents == 1..NumBlobs

\* The file paths a repository of the universe may hold: the content of a
\* versioned path varies over BlobContents, a fixed path has one content.
VersionedPaths == { <<"a">>, <<"a", "a">>, <<"a", "a", "a">> }
FixedPaths == { <<"b">>, <<"a", "b">>, <<"b", "a">> }
CandBlobs ==
    (VersionedPaths \X BlobContents) \cup {<<p, 1>> : p \in FixedPaths}

IsPrefix(p, q) == Len(p) <= Len(q) /\ SubSeq(q, 1, Len(p)) = p

\* A set of <<path, content>> pairs is a tree when no path occurs twice and
\* no file path is a directory of another file.
ValidTree(t) ==
    /\ \A x \in t : x[1] # <<>>
    /\ \A x, y \in t : x # y => ~IsPrefix(x[1], y[1])

TreeOids == {t \in SUBSET CandBlobs : ValidTree(t)}

IsBlobOid(oid) == \E x \in oid : x[1] = <<>>

\* The object below entry name n of tree t ({} when there is none).
SubOid(t, n) ==
    { <<Tail(x[1]), x[2]>> : x \in {y \in t : y[1] # <<>> /\ Head(y[1]) = n} }

\* Every tree object reachable from tree t, t included.
RECURSIVE SubTrees(_)
SubTrees(t) ==
    {t} \cup UNION { SubTrees(SubOid(t, n)) :
                     n \in {m \in Names : SubOid(t, m) # {}
                                          /\ ~IsBlobOid(SubOid(t, m))} }

\* The listing of tree object t: its entries {path, oid, type} by name.
TreeListing(t) ==
    LET all == [i \in 1..Len(NameOrder) |->
                   [path |-> NameOrder[i],
                    oid  |-> SubOid(t, NameOrder[i]),
                    type |-> IF IsBlobOid(SubOid(t, NameOrder[i]))
                             THEN "blob" ELSE "tree"]]
        Present(e) == e.oid # {}
    IN SelectSeq(all, Present)

\* git.readTree: the listing, or an exception when the object cannot be read
\* as a tree.
gitReadTree(oid) ==
    IF oid \in unreadable \/ IsBlobOid(oid)
    THEN [threw |-> TRUE, tree |-> <<>>]
    ELSE [threw |-> FALSE, tree |-> TreeListing(oid)]

\* `${basePath}/${entry.path}` when basePath is non-empty, else entry.path
FullPath(basePath, name) ==
    IF basePath # <<>> THEN basePath \o <<name>> ELSE <<name>>

Change(filename, status) == [filename |-> filename, status |-> status]

(***************************************************************************)
(* The incremental differ.  Every operator returns the exception flag, its *)
(* value and the sequence of OIDs it handed to git.readTree.               *)
(***************************************************************************)
readTreeSafeNoCatch(oid) ==
    LET r == gitReadTree(oid)
    IN [threw |-> r.threw, tree |-> r.tree, reads |-> <<oid>>]

readTreeSafe(oid) ==
    LET r == gitReadTree(oid)
    IN [threw |-> FALSE,
        tree  |-> IF r.threw THEN <<>> ELSE r.tree,
        reads |-> <<oid>>]

RECURSIVE collectAllFiles(_, _)
RECURSIVE collectLoop(_, _, _, _)

\* The for loop of collectAllFiles from entry i on; acc is the state so far.
collectLoop(tree, basePath, i, acc) ==
    IF acc.threw \/ i > Len(tree) THEN acc
    ELSE LET entry == tree[i]
             fullPath == FullPath(basePath, entry.path)
         IN IF entry.type = "blob"
            THEN collectLoop(tree, basePath, i + 1,
                     [acc EXCEPT !.files = Append(@, fullPath)])
            ELSE IF entry.type = "tree"
            THEN LET sub == collectAllFiles(entry.oid, fullPath)
                 IN collectLoop(tree, basePath, i + 1,
                        [threw |-> sub.threw,
                         files |-> acc.files \o sub.files,
                         reads |-> acc.reads \o sub.reads])
            ELSE collectLoop(tree, basePath, i + 1, acc)

collectDirectOnly(treeOid, basePath) ==
    LET r == readTreeSafe(treeOid)
        Blob(e) == e.type = "blob"
        blobs == SelectSeq(r.tree, Blob)
    IN [threw |-> r.threw,
        files |-> [i \in 1..Len(blobs) |-> FullPath(basePath, blobs[i].path)],
        reads |-> r.reads]

collectAllFiles(treeOid, basePath) ==
    LET r == readTreeSafe(treeOid)
    IN IF r.threw THEN [threw |-> TRUE, files |-> <<>>, reads |-> r.reads]
       ELSE collectLoop(r.tree, basePath, 1,
                [threw |-> FALSE, files |-> <<>>, reads |-> r.reads])

\* changes.push({filename: f, status}) for every f of files
PushAll(files, status) == [i \in 1..Len(files) |-> Change(files[i], status)]

\* The entry of a listing with the given name: <<>> or <<entry>> (Map.get).
MapGet(tree, name) ==
    LET Named(e) == e.path = name
    IN SelectSeq(tree, Named)

\* All blobs of one entry, as changes with the given status.
EntryFiles(entry, fullPath, status) ==
    IF entry.type = "blob"
    THEN [threw |-> FALSE, changes |-> <<Change(fullPath, status)>>, reads |-> <<>>]
    ELSE IF entry.type = "tree"
    THEN LET sub == collectAllFiles(entry.oid, fullPath)
         IN [threw |-> sub.threw, changes |-> PushAll(sub.files, status),
             reads |-> sub.reads]
    ELSE [threw |-> FALSE, changes |-> <<>>, reads |-> <<>>]

TypeChangedAsModified(oldEntry, entry, fullPath) ==
    [threw |-> FALSE, changes |-> <<Change(fullPath, "modified")>>,
     reads |-> <<>>]

\* The type-changed branch: remove of the old shape, then add of the new.
TypeChanged(oldEntry, entry, fullPath) ==
    LET rem == IF oldEntry.type = "blob"
               THEN [threw |-> FALSE,
                     changes |-> <<Change(fullPath, "removed")>>, reads |-> <<>>]
               ELSE LET o == collectAllFiles(oldEntry.oid, fullPath)
                    IN [threw |-> o.threw,
                        changes |-> PushAll(o.files, "removed"),
                        reads |-> o.reads]
        add == IF entry.type = "blob"
               THEN [threw |-> FALSE,
                     changes |-> <<Change(fullPath, "added")>>, reads |-> <<>>]
               ELSE LET n == collectAllFiles(entry.oid, fullPath)
                    IN [threw |-> n.threw,
                        changes |-> PushAll(n.files, "added"),
                        reads |-> n.reads]
    IN IF rem.threw THEN rem
       ELSE [threw |-> add.threw, changes |-> rem.changes \o add.changes,
             reads |-> rem.reads \o add.reads]

NeverIdentical(oldTreeOid, newTreeOid) == FALSE

\* if (oldTreeOid === newTreeOid)
TreesIdentical(oldTreeOid, newTreeOid) == oldTreeOid = <<newTreeOid>>

RECURSIVE diffTreesIncremental(_, _, _)

NewEntryNoOidCheck(oldTree, entry, basePath) ==
    LET fullPath == FullPath(basePath, entry.path)
        oldEntry == MapGet(oldTree, entry.path)
    IN IF oldEntry = <<>>
       THEN EntryFiles(entry, fullPath, "added")
       ELSE IF entry.type = "blob" /\ oldEntry[1].type = "blob"
       THEN [threw |-> FALSE,
             changes |-> <<Change(fullPath, "modified")>>, reads |-> <<>>]
       ELSE IF entry.type = "tree" /\ oldEntry[1].type = "tree"
       THEN diffTreesIncremental(<<oldEntry[1].oid>>, entry.oid, fullPath)
       ELSE TypeChanged(oldEntry[1], entry, fullPath)

\* One entry of the new tree against the old listing.
NewEntry(oldTree, entry, basePath) ==
    LET fullPath == FullPath(basePath, entry.path)
        oldEntry == MapGet(oldTree, entry.path)
    IN IF oldEntry = <<>>
       THEN EntryFiles(entry, fullPath, "added")
       ELSE IF oldEntry[1].oid # entry.oid
       THEN IF entry.type = "blob" /\ oldEntry[1].type = "blob"
            THEN [threw |-> FALSE,
                  changes |-> <<Change(fullPath, "modified")>>, reads |-> <<>>]
            ELSE IF entry.type = "tree" /\ oldEntry[1].type = "tree"
            THEN diffTreesIncremental(<<oldEntry[1].oid>>, entry.oid, fullPath)
            ELSE TypeChanged(oldEntry[1], entry, fullPath)
       ELSE [threw |-> FALSE, changes |-> <<>>, reads |-> <<>>]

NoOldEntry(newTree, entry, basePath) ==
    [threw |-> FALSE, changes |-> <<>>, reads |-> <<>>]

\* One entry of the old tree: reported when the new tree has no such name.
OldEntry(newTree, entry, basePath) ==
    IF MapGet(newTree, entry.path) = <<>>
    THEN EntryFiles(entry, FullPath(basePath, entry.path), "removed")
    ELSE [threw |-> FALSE, changes |-> <<>>, reads |-> <<>>]

Then(acc, r) ==
    [threw |-> r.threw, changes |-> acc.changes \o r.changes,
     reads |-> acc.reads \o r.reads]

RECURSIVE newLoop(_, _, _, _, _)
\* for (const entry of newTree) from entry i on
newLoop(oldTree, newTree, basePath, i, acc) ==
    IF acc.threw \/ i > Len(newTree) THEN acc
    ELSE newLoop(oldTree, newTree, basePath, i + 1,
                 Then(acc, NewEntry(oldTree, newTree[i], basePath)))

RECURSIVE oldLoop(_, _, _, _, _)
\* for (const entry of oldTree) from entry i on
oldLoop(oldTree, newTree, basePath, i, acc) ==
    IF acc.threw \/ i > Len(oldTree) THEN acc
    ELSE oldLoop(oldTree, newTree, basePath, i + 1,
                 Then(acc, OldEntry(newTree, oldTree[i], basePath)))

diffTreesIncremental(oldTreeOid, newTreeOid, basePath) ==
    IF TreesIdentical(oldTreeOid, newTreeOid)
    THEN [threw |-> FALSE, changes |-> <<>>, reads |-> <<>>]
    ELSE LET newR == readTreeSafe(newTreeOid)
             oldR == IF oldTreeOid # <<>> /\ ~newR.threw
                     THEN readTreeSafe(oldTreeOid[1])
                     ELSE [threw |-> FALSE, tree |-> <<>>, reads |-> <<>>]
             start == [threw |-> newR.threw \/ oldR.threw, changes |-> <<>>,
                       reads |-> newR.reads \o oldR.reads]
         IN oldLoop(oldR.tree, newR.tree, basePath, 1,
                    newLoop(oldR.tree, newR.tree, basePath, 1, start))

(***************************************************************************)
(* The flatten-then-compare differ: walkTree builds the Map path -> blob   *)
(* OID of a whole tree, diffTrees compares two such Maps.  A Map is the    *)
(* sequence of its <<key, value>> pairs in insertion order.                *)
(***************************************************************************)
MapHas(map, key) == \E i \in 1..Len(map) : map[i][1] = key

MapValue(map, key) == map[CHOOSE i \in 1..Len(map) : map[i][1] = key][2]

\* files.set(key, value)
MapSet(map, key, value) ==
    IF MapHas(map, key)
    THEN [i \in 1..Len(map) |-> IF map[i][1] = key THEN <<key, value>> ELSE map[i]]
    ELSE Append(map, <<key, value>>)

RECURSIVE walkEntries(_, _, _, _, _)
\* The for loop of walk(): blobs are set at once, the walk of each subtree is
\* started and completes after the loop.
walkEntries(tree, basePath, i, files, pending) ==
    IF i > Len(tree) THEN [files |-> files, pending |-> pending]
    ELSE LET entry == tree[i]
             fullPath == FullPath(basePath, entry.path)
         IN IF entry.type = "blob"
            THEN walkEntries(tree, basePath, i + 1,
                             MapSet(files, fullPath, entry.oid), pending)
            ELSE IF entry.type = "tree"
            THEN walkEntries(tree, basePath, i + 1, files,
                             Append(pending, <<entry.oid, fullPath>>))
            ELSE walkEntries(tree, basePath, i + 1, files, pending)

RECURSIVE walk(_, _, _)
\* The started walks, served in the order they were started; a failed read is
\* ignored by the catch around the body of walk().
walk(pending, files, reads) ==
    IF pending = <<>> THEN [files |-> files, reads |-> reads]
    ELSE LET oid == pending[1][1]
             basePath == pending[1][2]
             r == gitReadTree(oid)
         IN IF r.threw
            THEN walk(Tail(pending), files, Append(reads, oid))
            ELSE LET w == walkEntries(r.tree, basePath, 1, files, Tail(pending))
                 IN walk(w.pending, w.files, Append(reads, oid))

walkTree(treeOid) == walk(<< <<treeOid, <<>> >> >>, <<>>, <<>>)

RECURSIVE addedLoop(_, _, _, _)
addedLoop(oldTree, newTree, i, changes) ==
    IF i > Len(newTree) THEN changes
    ELSE LET path == newTree[i][1]
             oid == newTree[i][2]
         IN IF ~MapHas(oldTree, path)
            THEN addedLoop(oldTree, newTree, i + 1,
                           Append(changes, Change(path, "added")))
            ELSE IF MapValue(oldTree, path) # oid
            THEN addedLoop(oldTree, newTree, i + 1,
                           Append(changes, Change(path, "modified")))
            ELSE addedLoop(oldTree, newTree, i + 1, changes)

RECURSIVE removedLoop(_, _, _, _)
removedLoop(oldTree, newTree, i, changes) ==
    IF i > Len(oldTree) THEN changes
    ELSE IF ~MapHas(newTree, oldTree[i][1])
    THEN removedLoop(oldTree, newTree, i + 1,
                     Append(changes, Change(oldTree[i][1], "removed")))
    ELSE removedLoop(oldTree, newTree, i + 1, changes)

\* The previous tree forgotten: every file of the new tree reported as added.
diffTreesFromEmpty(oldTree, newTree) == addedLoop(<<>>, newTree, 1, <<>>)

diffTreesNoModified(oldTree, newTree) ==
    LET Kept(c) == c.status # "modified"
    IN SelectSeq(removedLoop(oldTree, newTree, 1,
                     addedLoop(oldTree, newTree, 1, <<>>)), Kept)

diffTrees(oldTree, newTree) ==
    removedLoop(oldTree, newTree, 1, addedLoop(oldTree, newTree, 1, <<>>))

(***************************************************************************)
(* The file tree state machine (utils/fileTree.ts).  A FileNode is a       *)
(* record; children is the sequence of child nodes, with noChildren set    *)
(* when the property is undefined.  parent is <<>> when undefined and      *)
(* <<path>> for the node at that path.  An undefined string property is    *)
(* "undefined", an undefined Date is <<>>.                                 *)
(***************************************************************************)
Undefined == "undefined"

RootId == <<"root">>

\* The names of the universe have no extension: colors[''] of getFileColor.
getFileColor(filename) == "#8da0cb"

\* A pure function of the name.
generateAuthorColor(name) == <<"hsl", name>>

\* new Date(isoString) and Date.toISOString(): a Date is its epoch
\* milliseconds, an ISO string the text of the same instant.
DateOf(iso) == [ms |-> iso.instant]
toISOString(date) == [instant |-> date.ms]

\* new Date(timestamp * 1000).toISOString() of fetchCommitsWithFiles
CommitDate(timestamp) == toISOString([ms |-> timestamp * 1000])

createFileTree ==
    [id |-> RootId, name |-> "root", path |-> <<>>, type |-> "directory",
     children |-> <<>>, noChildren |-> FALSE, parent |-> <<>>,
     status |-> Undefined, lastModified |-> <<>>, lastAuthor |-> Undefined,
     color |-> Undefined]

\* Index of the first child with the given name, 0 when there is none.
FindIndex(children, name) ==
    IF \E i \in 1..Len(children) : children[i].name = name
    THEN CHOOSE i \in 1..Len(children) :
            /\ children[i].name = name
            /\ \A j \in 1..(i - 1) : children[j].name # name
    ELSE 0

RemoveAt(seq, i) == SubSeq(seq, 1, i - 1) \o SubSeq(seq, i + 1, Len(seq))

NewChildAlwaysDirectory(current, parts, i) ==
    LET currentPath == SubSeq(parts, 1, i)
    IN [id |-> currentPath, name |-> parts[i], path |-> currentPath,
        type |-> "directory", children |-> <<>>, noChildren |-> FALSE,
        parent |-> <<current.path>>,
        status |-> Undefined, lastModified |-> <<>>, lastAuthor |-> Undefined,
        color |-> Undefined]

\* A missing child whose path is its bare name.
NewChildPathIsName(current, parts, i) ==
    LET isFile == i = Len(parts)
    IN [id |-> <<parts[i]>>, name |-> parts[i], path |-> <<parts[i]>>,
        type |-> IF isFile THEN "file" ELSE "directory",
        children |-> <<>>, noChildren |-> isFile,
        parent |-> <<current.path>>,
        status |-> Undefined, lastModified |-> <<>>, lastAuthor |-> Undefined,
        color |-> IF isFile THEN getFileColor(parts[i]) ELSE Undefined]

\* The object literal of addFileToTree for a missing child.
NewChild(current, parts, i) ==
    LET isFile == i = Len(parts)
        currentPath == SubSeq(parts, 1, i)
    IN [id |-> currentPath, name |-> parts[i], path |-> currentPath,
        type |-> IF isFile THEN "file" ELSE "directory",
        children |-> <<>>, noChildren |-> isFile,
        parent |-> <<current.path>>,
        status |-> Undefined, lastModified |-> <<>>, lastAuthor |-> Undefined,
        color |-> IF isFile THEN getFileColor(parts[i]) ELSE Undefined]

\* No child is ever found by its name.
findNoChild(children, part) == 0

\* current.children.find(c => c.name === part), as a position (0: none)
findChild(children, part) == FindIndex(children, part)

RECURSIVE addLoop(_, _, _)
\* The loop body of addFileToTree at part i (1-based), current being the node
\* reached so far; the value is current after the rest of the loop.
addLoop(current, parts, i) ==
    LET idx == findChild(current.children, parts[i])
        withChild == IF idx = 0
                     THEN Append(current.children, NewChild(current, parts, i))
                     ELSE current.children
        at == IF idx = 0 THEN Len(withChild) ELSE idx
    IN IF i = Len(parts)
       THEN [current EXCEPT !.children = withChild, !.noChildren = FALSE]
       ELSE [current EXCEPT
                !.children = [withChild EXCEPT ![at] = addLoop(withChild[at], parts, i + 1)],
                !.noChildren = FALSE]

\* addFileToTree: the tree after the call; the node it returns is the one at
\* filepath.
addFileToTree(root, filepath) == addLoop(root, filepath, 1)

RECURSIVE findFileInTree(_, _)
\* <<>> for null, <<node>> otherwise
findFileInTree(root, filepath) ==
    IF filepath = <<>> THEN <<root>>
    ELSE LET idx == FindIndex(root.children, Head(filepath))
         IN IF idx = 0 THEN <<>>
            ELSE findFileInTree(root.children[idx], Tail(filepath))

\* An emptied directory never splices its parent.
neverEmptied(node) == FALSE

\* parent.children?.length === 0 && parent.type === 'directory'
isEmptyDirectory(node) ==
    /\ ~node.noChildren
    /\ Len(node.children) = 0
    /\ node.type = "directory"

RECURSIVE removeLoop(_, _, _)
\* removeFileFromTree below node current = parents[i-1]: the navigation, the
\* splice of the file and, on the way back, the splice of an emptied
\* directory parents[i].
removeLoop(current, parts, i) ==
    LET idx == FindIndex(current.children, parts[i])
    IN IF idx = 0 THEN [ok |-> FALSE, node |-> current]
       ELSE IF i = Len(parts)
       THEN [ok |-> TRUE,
             node |-> [current EXCEPT !.children = RemoveAt(@, idx)]]
       ELSE LET r == removeLoop(current.children[idx], parts, i + 1)
                emptied == isEmptyDirectory(r.node)
                byId == IF \E j \in 1..Len(current.children) :
                                current.children[j].id = r.node.id
                        THEN CHOOSE j \in 1..Len(current.children) :
                                /\ current.children[j].id = r.node.id
                                /\ \A k \in 1..(j - 1) :
                                      current.children[k].id # r.node.id
                        ELSE 0
            IN IF ~r.ok THEN [ok |-> FALSE, node |-> current]
               ELSE IF emptied /\ byId # 0
               THEN [ok |-> TRUE,
                     node |-> [current EXCEPT !.children =
                                 RemoveAt([@ EXCEPT ![idx] = r.node], byId)]]
               ELSE [ok |-> TRUE,
                     node |-> [current EXCEPT !.children[idx] = r.node]]

removeFileFromTree(root, filepath) == removeLoop(root, filepath, 1).node

RECURSIVE stampAt(_, _, _)
\* The assignments to the node at path: node.status = ..., and with stamp =
\* <<date, authorKey>> also node.lastModified and node.lastAuthor.
stampAt(root, path, fields) ==
    IF path = <<>>
    THEN IF fields.stamped
         THEN [root EXCEPT !.status = fields.status,
                           !.lastModified = <<fields.date>>,
                           !.lastAuthor = fields.author]
         ELSE [root EXCEPT !.status = fields.status]
    ELSE LET idx == FindIndex(root.children, Head(path))
         IN IF idx = 0 THEN root
            ELSE [root EXCEPT !.children[idx] = stampAt(@, Tail(path), fields)]

\* Map.get / Map.set on the author registry
AuthorIndex(authors, key) ==
    IF \E i \in 1..Len(authors) : authors[i][1] = key
    THEN CHOOSE i \in 1..Len(authors) : authors[i][1] = key
    ELSE 0

\* The author bookkeeping keyed by the author's name alone.
countAuthorByName(authors, commit) ==
    LET authorKey == commit.author.name
        idx == AuthorIndex(authors, authorKey)
        fresh == [name |-> commit.author.name, email |-> commit.author.email,
                  login |-> commit.author.login,
                  avatarUrl |-> commit.author.avatarUrl,
                  commitCount |-> 0,
                  color |-> generateAuthorColor(commit.author.name)]
        known == IF idx = 0 THEN Append(authors, <<authorKey, fresh>>) ELSE authors
        at == IF idx = 0 THEN Len(known) ELSE idx
    IN [known EXCEPT ![at][2].commitCount = @ + 1]

\* The author bookkeeping of applyCommitToTree.
countAuthor(authors, commit) ==
    LET authorKey == IF commit.author.email # "" THEN commit.author.email
                     ELSE commit.author.name
        idx == AuthorIndex(authors, authorKey)
        fresh == [name |-> commit.author.name, email |-> commit.author.email,
                  login |-> commit.author.login,
                  avatarUrl |-> commit.author.avatarUrl,
                  commitCount |-> 0,
                  color |-> generateAuthorColor(commit.author.name)]
        known == IF idx = 0 THEN Append(authors, <<authorKey, fresh>>) ELSE authors
        at == IF idx = 0 THEN Len(known) ELSE idx
    IN [known EXCEPT ![at][2].commitCount = @ + 1]

AuthorKey(commit) ==
    IF commit.author.email # "" THEN commit.author.email ELSE commit.author.name

\* node.status, node.lastModified and node.lastAuthor as a stamped change
\* assigns them.
stamp(status, commit) ==
    [stamped |-> TRUE, status |-> status,
     date |-> DateOf(commit.author.date), author |-> AuthorKey(commit)]

\* case 'added'.  acc is [root, modifiedNodes].
applyAdded(acc, file, commit) ==
    [root |-> stampAt(addFileToTree(acc.root, file.filename),
                      file.filename, stamp("added", commit)),
     modifiedNodes |-> Append(acc.modifiedNodes, file.filename)]

\* A modified file that is not in the tree is passed over.
applyModifiedOnlyIfPresent(acc, file, commit) ==
    IF findFileInTree(acc.root, file.filename) = <<>> THEN acc
    ELSE [root |-> stampAt(acc.root, file.filename, stamp("modified", commit)),
          modifiedNodes |-> Append(acc.modifiedNodes, file.filename)]

\* case 'modified'
applyModified(acc, file, commit) ==
    LET found == findFileInTree(acc.root, file.filename)
        root1 == IF found = <<>>
                 THEN addFileToTree(acc.root, file.filename)
                 ELSE acc.root
    IN [root |-> stampAt(root1, file.filename, stamp("modified", commit)),
        modifiedNodes |-> Append(acc.modifiedNodes, file.filename)]

\* A removed file is taken out of the tree at once.
applyRemovedAtOnce(acc, file, commit) ==
    IF findFileInTree(acc.root, file.filename) # <<>>
    THEN [root |-> removeFileFromTree(acc.root, file.filename),
          modifiedNodes |-> Append(acc.modifiedNodes, file.filename)]
    ELSE acc

\* case 'removed'
applyRemoved(acc, file, commit) ==
    IF findFileInTree(acc.root, file.filename) # <<>>
    THEN [root |-> stampAt(acc.root, file.filename,
                           [stamped |-> FALSE, status |-> "removed"]),
          modifiedNodes |-> Append(acc.modifiedNodes, file.filename)]
    ELSE acc

\* A rename that leaves the node at the previous path in place.
applyRenamedKeepsPrevious(acc, file, commit) ==
    [root |-> stampAt(addFileToTree(acc.root, file.filename),
                      file.filename, stamp("modified", commit)),
     modifiedNodes |-> Append(acc.modifiedNodes, file.filename)]

\* case 'renamed'
applyRenamed(acc, file, commit) ==
    LET root1 == IF file.previousFilename # <<>>
                 THEN removeFileFromTree(acc.root, file.previousFilename[1])
                 ELSE acc.root
    IN [root |-> stampAt(addFileToTree(root1, file.filename),
                         file.filename, stamp("modified", commit)),
        modifiedNodes |-> Append(acc.modifiedNodes, file.filename)]

\* One file change of the commit applied to the tree: the switch of
\* applyCommitToTree.
applyFile(acc, file, commit) ==
    CASE file.status = "added" -> applyAdded(acc, file, commit)
      [] file.status = "modified" -> applyModified(acc, file, commit)
      [] file.status = "removed" -> applyRemoved(acc, file, commit)
      [] file.status = "renamed" -> applyRenamed(acc, file, commit)
      [] OTHER -> acc

RECURSIVE applyFilesUntilMissing(_, _, _)
\* The loop over commit.files given up at the first change that leaves the
\* tree as it was.
applyFilesUntilMissing(acc, commit, i) ==
    IF i > Len(commit.files) THEN acc
    ELSE LET next == applyFile(acc, commit.files[i], commit)
         IN IF next = acc THEN acc
            ELSE applyFilesUntilMissing(next, commit, i + 1)

RECURSIVE applyFilesLastFirst(_, _, _)
\* The loop over commit.files taken from the last change to the first.
applyFilesLastFirst(acc, commit, i) ==
    IF i > Len(commit.files) THEN acc
    ELSE applyFile(applyFilesLastFirst(acc, commit, i + 1),
                   commit.files[i], commit)

RECURSIVE applyFiles(_, _, _)
\* for (const file of commit.files) from file i on
applyFiles(acc, commit, i) ==
    IF i > Len(commit.files) THEN acc
    ELSE applyFiles(applyFile(acc, commit.files[i], commit), commit, i + 1)

\* applyCommitToTree: the tree and the registry after the call, and the
\* paths of the nodes it returns.
applyCommitToTree(root, commit, authors) ==
    LET r == applyFiles([root |-> root, modifiedNodes |-> <<>>], commit, 1)
    IN [root |-> r.root, authors |-> countAuthor(authors, commit),
        modifiedNodes |-> r.modifiedNodes]

(***************************************************************************)
(* The differ on its own: inputs drawn from the universe, each strategy    *)
(* run once on them.                                                       *)
(***************************************************************************)
\* The live tree before any commit: the refs as handleRepoSubmit resets them.
TreeIdle ==
    /\ treeRef = createFileTree
    /\ authorsRef = <<>>
    /\ modifiedFiles = <<>>
    /\ applied = 0
    /\ lastCommit = <<>>
    /\ preTree = createFileTree
    /\ lastOp = "none"
    /\ thrown = "none"

ReplayIdle ==
    /\ commits = <<>>
    /\ diffIndex = 0
    /\ previousTree = <<>>
    /\ treeCache = <<>>
    /\ currentCommitIndex = -1
    /\ treeSnapshots = {}
    /\ now = 0
    /\ seek = <<>>

\* The application before any repository is submitted (App.tsx useState
\* defaults) and the module state of services/git.ts.
\* The file viewer as it is mounted: nothing shown, nothing in flight.
ViewIdle ==
    /\ filePath = <<>>
    /\ fileContent = <<>>
    /\ previousContent = <<>>
    /\ loading = FALSE
    /\ viewerError = "null"
    /\ loads = <<>>
    /\ prefetches = <<>>
    /\ abortControllerRef = 0
    /\ prefetchAbortRef = 0

SessionIdle ==
    /\ appState = "input"
    /\ isPlaying = FALSE
    /\ error = "null"
    /\ urlAt = <<>>
    /\ diffComputationAbort = 0
    /\ tasks = <<>>
    /\ owner = 0
    /\ lostCommits = {}
    /\ taskSteps = 0

\* No cache function has been called; the object stores are empty.
StoreIdle ==
    /\ indexedDBOpens = TRUE
    /\ dbPromise = "null"
    /\ commitsStore = {}
    /\ nodePositionsStore = {}
    /\ fileContentsStore = {}
    /\ cacheCall = <<>>
    /\ cacheWrites = 0
    /\ fileCache = <<>>

NotRun == [done |-> FALSE, threw |-> FALSE, changes |-> <<>>, reads |-> <<>>]

Prefixes == { <<>>, <<"p">> }

InitDiff ==
    /\ dNew \in TreeOids
    /\ dOld \in {<<>>} \cup {<<t>> : t \in TreeOids}
    /\ dPrefix = <<>>
    /\ \E u \in SUBSET (SubTrees(dNew)
                        \cup (IF dOld = <<>> THEN {} ELSE SubTrees(dOld[1]))) :
          /\ Cardinality(u) <= MaxUnreadable
          /\ unreadable = u
    /\ dInc = NotRun
    /\ dFlat = NotRun
    /\ TreeIdle
    /\ ReplayIdle
    /\ StoreIdle
    /\ SessionIdle /\ ViewIdle

\* startBackgroundDiffComputation of unnamed/part_001, one commit
RunIncremental ==
    /\ ~dInc.done
    /\ \E basePath \in Prefixes :
          LET r == diffTreesIncremental(dOld, dNew, basePath)
          IN /\ dPrefix' = basePath
             /\ dInc' = [done |-> TRUE, threw |-> r.threw,
                         changes |-> r.changes, reads |-> r.reads]
    /\ UNCHANGED <<viewVars, sessionVars, storeVars, unreadable, dOld, dNew, dFlat, treeVars, replayVars>>

\* startBackgroundDiffComputation of services/git.ts, one commit
RunFlatten ==
    /\ ~dFlat.done
    /\ LET old == IF dOld = <<>> THEN [files |-> <<>>, reads |-> <<>>]
                  ELSE walkTree(dOld[1])
           new == walkTree(dNew)
       IN dFlat' = [done |-> TRUE, threw |-> FALSE,
                    changes |-> diffTrees(old.files, new.files),
                    reads |-> old.reads \o new.reads]
    /\ UNCHANGED <<viewVars, sessionVars, storeVars, unreadable, dOld, dNew, dPrefix, dInc, treeVars, replayVars>>

NextDiff == RunIncremental \/ RunFlatten

SpecDiff == InitDiff /\ [][NextDiff]_vars

(***************************************************************************)
(* The apply state machine on its own: commits drawn from a bounded set    *)
(* are handed to processCommit one after the other.                        *)
(***************************************************************************)
MaxApplies == 3

DiffIdle ==
    /\ unreadable = {}
    /\ dOld = <<>>
    /\ dNew = {}
    /\ dPrefix = <<>>
    /\ dInc = NotRun
    /\ dFlat = NotRun

ApplyPaths == { <<"a">>, <<"b">>, <<"a", "a">>, <<"a", "b">>, <<"a", "a", "a">> }

FileChange(filename, status, previousFilename) ==
    [filename |-> filename, status |-> status,
     previousFilename |-> previousFilename]

SingleChanges ==
    { FileChange(f, st, <<>>) :
        f \in ApplyPaths, st \in {"added", "modified", "removed"} }
    \cup { FileChange(f, "renamed", prev) :
             f \in { <<"b">>, <<"a", "b">> },
             prev \in { <<>>, << <<"b">> >>, << <<"a", "a">> >>,
                        << <<"a", "a", "a">> >> } }

\* Commits of two changes: an entry that may not resolve, or one that builds
\* a directory, followed by a second entry.
ChangePairs ==
    { <<c1, c2>> :
        c1 \in { FileChange(<<"b">>, "removed", <<>>),
                 FileChange(<<"a", "a">>, "added", <<>>) },
        c2 \in { FileChange(<<"a">>, "added", <<>>),
                 FileChange(<<"a", "b">>, "modified", <<>>),
                 FileChange(<<"a", "a">>, "removed", <<>>) } }

\* The author of a commit as fetchCommitsWithFiles builds it: login and
\* avatarUrl are not set; an empty email makes the name the author key.
CommitAuthor(name, email, timestamp) ==
    [name |-> name, email |-> email, date |-> CommitDate(timestamp),
     login |-> Undefined, avatarUrl |-> Undefined]

AuthorInputs == { <<"ann", "ann@x">>, <<"bob", "">> }

\* The commits handed to the n-th apply: either author adds, the other
\* changes come from the author with an email.
InputCommits(n) ==
    { [sha |-> n, author |-> CommitAuthor(a[1], a[2], n + 1), files |-> <<c>>] :
        a \in AuthorInputs, c \in {x \in SingleChanges : x.status = "added"} }
    \cup { [sha |-> n, author |-> CommitAuthor("ann", "ann@x", n + 1),
            files |-> <<c>>] : c \in {x \in SingleChanges : x.status # "added"} }
    \cup { [sha |-> n, author |-> CommitAuthor("ann", "ann@x", n + 1),
            files |-> cs] : cs \in ChangePairs }

\* The apply step shared by processCommit, the playback tick and the
\* auto-start of App.tsx: applyCommitToTree on the refs, then the state update.
applyToLive(commit) ==
    LET r == applyCommitToTree(treeRef, commit, authorsRef)
    IN /\ preTree' = treeRef
       /\ lastCommit' = <<commit>>
       /\ treeRef' = r.root
       /\ authorsRef' = r.authors
       /\ modifiedFiles' = r.modifiedNodes
       /\ applied' = applied + 1
       /\ thrown' = "none"

InitApply == DiffIdle /\ TreeIdle /\ ReplayIdle /\ StoreIdle /\ SessionIdle /\ ViewIdle

ApplyInput ==
    /\ applied < MaxApplies
    /\ \E commit \in InputCommits(applied) : applyToLive(commit)
    /\ lastOp' = "apply"
    /\ UNCHANGED <<viewVars, sessionVars, storeVars, diffVars, replayVars>>

\* The commit applied last is handed to the apply step once more.
ApplyAgain ==
    /\ applied < MaxApplies
    /\ lastOp = "apply"
    /\ applyToLive(lastCommit[1])
    /\ lastOp' = "again"
    /\ UNCHANGED <<viewVars, sessionVars, storeVars, diffVars, replayVars>>

RECURSIVE RemovedPaths(_)
\* The positions of the nodes stamped 'removed'.
RemovedPaths(root) ==
    UNION { { <<root.children[i].name>> \o q : q \in RemovedPaths(root.children[i]) }
            \cup ( IF root.children[i].status = "removed"
                   THEN { <<root.children[i].name>> } ELSE {} )
            : i \in 1..Len(root.children) }

\* The cleanup the caller runs once a removal has been observed:
\* removeFileFromTree on a node stamped 'removed'.
Cleanup ==
    /\ \E filepath \in RemovedPaths(treeRef) :
          treeRef' = removeFileFromTree(treeRef, filepath)
    /\ preTree' = treeRef
    /\ lastCommit' = <<>>
    /\ modifiedFiles' = <<>>
    /\ lastOp' = "cleanup"
    /\ UNCHANGED <<viewVars, sessionVars, storeVars, authorsRef, applied, thrown, diffVars, replayVars>>

NextApply == ApplyInput \/ ApplyAgain \/ Cleanup

SpecApply == InitApply /\ [][NextApply]_vars

(***************************************************************************)
(* The tree snapshots of services/cache.ts.  The store is the set of its   *)
(* records, one per [key, commitIndex].                                    *)
(***************************************************************************)
CACHE_EXPIRY_DAYS == 7

\* Time is counted in days, so expiryMs is CACHE_EXPIRY_DAYS.
\* No entry ever expires.
neverExpired(timestamp) == FALSE

isExpired(timestamp) == now - timestamp > CACHE_EXPIRY_DAYS

RECURSIVE serializeTree(_)
RECURSIVE serializeAll(_)
\* node.children.map(serializeTree)
serializeAll(children) ==
    IF children = <<>> THEN <<>>
    ELSE <<serializeTree(Head(children))>> \o serializeAll(Tail(children))

serializeTree(node) ==
    [id |-> node.id, name |-> node.name, path |-> node.path,
     type |-> node.type,
     children |-> serializeAll(node.children),
     noChildren |-> node.noChildren,
     lastModified |-> IF node.lastModified = <<>> THEN <<>>
                      ELSE <<toISOString(node.lastModified[1])>>,
     lastAuthor |-> node.lastAuthor, status |-> node.status,
     color |-> node.color]

deserializeWithoutChildren(node, parent) ==
    [id |-> node.id, name |-> node.name, path |-> node.path,
     type |-> node.type, parent |-> parent,
     lastModified |-> IF node.lastModified = <<>> THEN <<>>
                      ELSE <<DateOf(node.lastModified[1])>>,
     lastAuthor |-> node.lastAuthor, status |-> node.status,
     color |-> node.color, children |-> <<>>, noChildren |-> TRUE]

RECURSIVE deserializeTree(_, _)
RECURSIVE deserializeAll(_, _)
\* node.children.map(child => deserializeTree(child, result))
deserializeAll(children, result) ==
    IF children = <<>> THEN <<>>
    ELSE <<deserializeTree(Head(children), result)>>
         \o deserializeAll(Tail(children), result)

\* parent is <<>> for the root; a child's parent is the node being built.
deserializeTree(node, parent) ==
    [id |-> node.id, name |-> node.name, path |-> node.path,
     type |-> node.type, parent |-> parent,
     lastModified |-> IF node.lastModified = <<>> THEN <<>>
                      ELSE <<DateOf(node.lastModified[1])>>,
     lastAuthor |-> node.lastAuthor, status |-> node.status,
     color |-> node.color,
     children |-> IF node.noChildren THEN <<>>
                  ELSE deserializeAll(node.children, <<node.path>>),
     noChildren |-> node.noChildren]

RECURSIVE serializeAuthors(_)
\* Array.from(authors.entries()).map(([k, v]) => [k, {...}])
serializeAuthors(authors) ==
    IF authors = <<>> THEN <<>>
    ELSE LET k == Head(authors)[1]
             v == Head(authors)[2]
         IN << <<k, [name |-> v.name, email |-> v.email, login |-> v.login,
                     avatarUrl |-> v.avatarUrl, commitCount |-> v.commitCount,
                     color |-> v.color]>> >>
            \o serializeAuthors(Tail(authors))

\* store.put(snapshot): the record of the same [key, commitIndex] is replaced
saveTreeSnapshot(store, key, commitIndex, fileTree, authors) ==
    LET snapshot == [key |-> key, commitIndex |-> commitIndex,
                     fileTree |-> serializeTree(fileTree),
                     authors |-> serializeAuthors(authors),
                     timestamp |-> now]
    IN {s \in store : ~(s.key = key /\ s.commitIndex = commitIndex)}
       \cup {snapshot}

\* Every snapshot of the store, whatever its key.
allKeys(store, key) == store

\* index.getAll(key) on the byKey index
byKey(store, key) == {s \in store : s.key = key}

AnyCommitIndex(s, targetCommitIndex) == TRUE

\* snapshots.filter(s => s.commitIndex <= targetCommitIndex)
AtOrBefore(s, targetCommitIndex) == s.commitIndex <= targetCommitIndex

\* <<>> for null, otherwise the snapshot with its tree and authors rebuilt
getNearestTreeSnapshot(store, key, targetCommitIndex) ==
    LET snapshots == byKey(store, key)
        validSnapshots == {s \in snapshots : AtOrBefore(s, targetCommitIndex)}
        nearest == CHOOSE s \in validSnapshots :
                      \A t \in validSnapshots : t.commitIndex <= s.commitIndex
    IN IF snapshots = {} THEN <<>>
       ELSE IF validSnapshots = {} THEN <<>>
       ELSE IF isExpired(nearest.timestamp) THEN <<>>
       ELSE <<[snapshot |-> nearest,
               fileTree |-> deserializeTree(nearest.fileTree, <<>>),
               authors |-> nearest.authors]>>

(***************************************************************************)
(* A session on a loaded repository: the background diff fills the commit  *)
(* list, and once it is complete the user steps and seeks over it, with    *)
(* snapshots saved and used.                                               *)
(***************************************************************************)
MaxCommits == 2
MaxSnapshots == 2
ClockStep == 8
MaxClock == 8

RepoKey == "owner/repo/main"
OtherKey == "owner/other/main"

\* The root trees the histories are drawn from.
RepoRoots ==
    { {},
      { << <<"a">>, 1 >> },
      { << <<"a">>, 2 >>, << <<"b">>, 1 >> },
      { << <<"a", "a">>, 1 >>, << <<"b">>, 1 >> },
      { << <<"a", "a", "a">>, 1 >>, << <<"a", "b">>, 1 >> } }

\* The commit lists of the session, the empty list included: commits is []
\* until a repository with commits is loaded.
Histories == UNION { [1..n -> RepoRoots] : n \in 0..MaxCommits }

\* The commits of fetchCommitsWithFiles before the background diff: oldest
\* first, files empty.  tree is the root tree readCommit gives for the sha.
LogCommit(history, i) ==
    [sha |-> i - 1, tree |-> history[i],
     author |-> IF i % 2 = 1 THEN CommitAuthor("ann", "ann@x", i)
                ELSE CommitAuthor("bob", "", i),
     files |-> <<>>]

RECURSIVE LogCommitsUpTo(_, _)
LogCommitsUpTo(history, n) ==
    IF n = 0 THEN <<>>
    ELSE Append(LogCommitsUpTo(history, n - 1), LogCommit(history, n))

LogCommits(history) == LogCommitsUpTo(history, Len(history))

RECURSIVE replay(_, _, _, _)
\* for (let i = from; i <= targetIndex; i++) applyCommitToTree(...), commit
\* indices counted from 0
replay(root, authors, from, targetIndex) ==
    IF from > targetIndex THEN [root |-> root, authors |-> authors]
    ELSE LET r == applyCommitToTree(root, commits[from + 1], authors)
         IN replay(r.root, r.authors, from + 1, targetIndex)

\* A snapshot another repository left in the store.
OtherSnapshot ==
    [key |-> OtherKey, commitIndex |-> 0,
     fileTree |-> serializeTree(createFileTree), authors |-> <<>>,
     timestamp |-> 0]

InitReplay ==
    /\ DiffIdle
    /\ TreeIdle
    /\ StoreIdle
    /\ SessionIdle /\ ViewIdle
    /\ \E history \in Histories : commits = LogCommits(history)
    /\ diffIndex = 0
    /\ previousTree = <<>>
    /\ treeCache = <<>>
    /\ currentCommitIndex = -1
    /\ treeSnapshots = {OtherSnapshot}
    /\ now = 0
    /\ seek = <<>>

\* A tree cache that answers every hit with the empty file map.
cachedEmptyTree(treeOid) == <<>>

\* treeCache.get(treeOid)
cachedTree(treeOid) == MapValue(treeCache, treeOid)

\* One iteration of the loop of startBackgroundDiffComputation
\* (services/git.ts): the files of the next commit are filled in.
BackgroundDiffStep ==
    /\ diffIndex < Len(commits)
    /\ LET treeOid == commits[diffIndex + 1].tree
           cached == MapHas(treeCache, treeOid)
           currentTree == IF cached THEN cachedTree(treeOid)
                          ELSE walkTree(treeOid).files
       IN /\ treeCache' = IF cached THEN treeCache
                          ELSE MapSet(treeCache, treeOid, currentTree)
          /\ commits' = [commits EXCEPT ![diffIndex + 1].files =
                            diffTrees(previousTree, currentTree)]
          /\ previousTree' = currentTree
    /\ diffIndex' = diffIndex + 1
    /\ UNCHANGED <<viewVars, sessionVars, storeVars, diffVars, treeVars, currentCommitIndex, treeSnapshots,
                   now, seek>>

\* The background diff has gone through every commit.
DiffComplete == diffIndex = Len(commits)

\* handleSkipForward, and with it every single-commit step of the playback
handleSkipForward ==
    /\ DiffComplete
    /\ currentCommitIndex < Len(commits) - 1
    /\ applyToLive(commits[currentCommitIndex + 2])
    /\ lastOp' = "apply"
    /\ currentCommitIndex' = currentCommitIndex + 1
    /\ seek' = <<>>
    /\ UNCHANGED <<viewVars, sessionVars, storeVars, diffVars, commits, diffIndex, previousTree, treeCache,
                      treeSnapshots, now>>

\* handleSeek: the refs are reset and the commits 0..targetIndex applied.
\* commits[i] is undefined from i = commits.length on, and applyCommitToTree
\* throws a TypeError reading commit.author of it: the loop ends there and
\* the state setters after it are not reached.
handleSeek(targetIndex) ==
    LET fails == targetIndex >= Len(commits)
        last == IF fails THEN Len(commits) - 1 ELSE targetIndex
        r == replay(createFileTree, <<>>, 0, last)
    IN /\ treeRef' = r.root
       /\ authorsRef' = r.authors
       /\ IF fails
          THEN /\ thrown' = "TypeError"
               /\ UNCHANGED <<currentCommitIndex, modifiedFiles>>
          ELSE /\ thrown' = "none"
               /\ currentCommitIndex' = targetIndex
               /\ modifiedFiles' = <<>>
       /\ applied' = last + 1
       /\ lastCommit' = <<>>
       /\ preTree' = createFileTree
       /\ lastOp' = "seek"
       /\ seek' = <<>>
       /\ UNCHANGED <<viewVars, sessionVars, storeVars, diffVars, commits, diffIndex, previousTree, treeCache,
                      treeSnapshots, now>>

\* The timeline slider offers the targets 0..max(0, totalCommits - 1).
SeekFull ==
    /\ DiffComplete
    /\ \E targetIndex \in 0..(IF Len(commits) = 0 THEN 0 ELSE Len(commits) - 1) :
          handleSeek(targetIndex)

\* The live state is captured at the index it stands at.
SaveSnapshot ==
    /\ currentCommitIndex >= 0
    /\ \/ \E s \in treeSnapshots :
             s.key = RepoKey /\ s.commitIndex = currentCommitIndex
       \/ Cardinality({s \in treeSnapshots : s.key = RepoKey}) < MaxSnapshots
    /\ treeSnapshots' = saveTreeSnapshot(treeSnapshots, RepoKey,
                                         currentCommitIndex, treeRef, authorsRef)
    /\ UNCHANGED <<viewVars, sessionVars, storeVars, diffVars, treeVars, commits, diffIndex, previousTree,
                   treeCache, currentCommitIndex, now, seek>>

\* The seek controller: the nearest snapshot at or before the target is
\* restored and the commits after it are applied; without a usable snapshot
\* the replay starts from the empty tree.
seekWithSnapshot(targetIndex) ==
    LET found == getNearestTreeSnapshot(treeSnapshots, RepoKey, targetIndex)
        from == IF found = <<>> THEN -1 ELSE found[1].snapshot.commitIndex
        r == IF found = <<>>
             THEN replay(createFileTree, <<>>, 0, targetIndex)
             ELSE replay(found[1].fileTree, found[1].authors, from + 1, targetIndex)
    IN /\ treeRef' = r.root
       /\ authorsRef' = r.authors
       /\ currentCommitIndex' = targetIndex
       /\ modifiedFiles' = <<>>
       /\ applied' = targetIndex + 1
       /\ lastCommit' = <<>>
       /\ preTree' = createFileTree
       /\ lastOp' = "seek"
       /\ thrown' = "none"
       /\ seek' = <<[targetIndex |-> targetIndex, from |-> from]>>
       /\ UNCHANGED <<viewVars, sessionVars, storeVars, diffVars, commits, diffIndex, previousTree, treeCache,
                      treeSnapshots, now>>

SeekSnapshot ==
    /\ DiffComplete
    /\ \E targetIndex \in 0..(Len(commits) - 1) : seekWithSnapshot(targetIndex)

PassTime ==
    /\ now + ClockStep <= MaxClock
    /\ now' = now + ClockStep
    /\ UNCHANGED <<viewVars, sessionVars, storeVars, diffVars, treeVars, commits, diffIndex, previousTree,
                   treeCache, currentCommitIndex, treeSnapshots, seek>>

\* The snapshots of the repository are discarded (clearTreeSnapshots).
DiscardSnapshots ==
    /\ byKey(treeSnapshots, RepoKey) # {}
    /\ treeSnapshots' = treeSnapshots \ byKey(treeSnapshots, RepoKey)
    /\ UNCHANGED <<viewVars, sessionVars, storeVars, diffVars, treeVars, commits, diffIndex,
                   previousTree, treeCache, currentCommitIndex, now, seek>>

NextReplay ==
    \/ BackgroundDiffStep
    \/ DiscardSnapshots
    \/ handleSkipForward
    \/ SeekFull
    \/ SaveSnapshot
    \/ SeekSnapshot
    \/ PassTime

SpecReplay == InitReplay /\ [][NextReplay]_vars

(***************************************************************************)
(* Vocabulary of the differ's properties.                                  *)
(***************************************************************************)
ChangeSet(changes) == {changes[i] : i \in 1..Len(changes)}

PathsOf(t) == {x[1] : x \in t}

\* The tree object at directory path q of tree t.
SubAt(t, q) ==
    { <<SubSeq(x[1], Len(q) + 1, Len(x[1])), x[2]>> :
        x \in {y \in t : IsPrefix(q, y[1])} }

\* The blobs of t that a reader reaches: those with no unreadable tree above.
Readable(t) ==
    { x \in t : \A k \in 0..(Len(x[1]) - 1) :
                   SubAt(t, SubSeq(x[1], 1, k)) \notin unreadable }

OldContent == IF dOld = <<>> THEN {} ELSE Readable(dOld[1])
NewContent == Readable(dNew)

\* The file-level difference of two contents, stated on the contents alone.
ExpectedChanges(old, new, basePath) ==
    {Change(basePath \o x[1], "added") :
        x \in {y \in new : y[1] \notin PathsOf(old)}}
    \cup {Change(basePath \o x[1], "removed") :
        x \in {y \in old : y[1] \notin PathsOf(new)}}
    \cup {Change(basePath \o x[1], "modified") :
        x \in {y \in new : y[1] \in PathsOf(old) /\ y \notin old}}

WithStatus(changes, status) ==
    {changes[i].filename : i \in {j \in 1..Len(changes) : changes[j].status = status}}

\* C3: on the same pair of trees (old possibly absent) the incremental
\* differ and the flatten-then-compare differ report the same set of
\* (path, status) changes.
C3_StrategiesAgree ==
    (dInc.done /\ dFlat.done) =>
        ChangeSet(dInc.changes)
          = {Change(dPrefix \o c.filename, c.status) : c \in ChangeSet(dFlat.changes)}

C3_Witness ==
    /\ dInc.done /\ dFlat.done /\ dOld # <<>>
    /\ WithStatus(dInc.changes, "modified") # {}
    /\ WithStatus(dInc.changes, "added") # {}
    /\ WithStatus(dFlat.changes, "removed") # {}

\* C4: diff(x, x, prefix) is the empty change list and reads no tree object.
C4_IdentityShortCircuit ==
    (dInc.done /\ dOld = <<dNew>>) =>
        /\ dInc.changes = <<>>
        /\ dInc.reads = <<>>
        /\ ~dInc.threw

C4_Witness ==
    /\ dInc.done /\ dOld = <<dNew>> /\ dPrefix # <<>>
    /\ Cardinality(SubTrees(dNew)) >= 3

\* C5: when the path sets of the new tree (A) and of the old tree (B) are
\* disjoint, the diff is exactly one 'added' entry per path of A and one
\* 'removed' entry per path of B, nothing else and nothing twice.
C5_Completeness ==
    (dInc.done /\ PathsOf(NewContent) \cap PathsOf(OldContent) = {}) =>
        /\ WithStatus(dInc.changes, "added")
             = {dPrefix \o q : q \in PathsOf(NewContent)}
        /\ WithStatus(dInc.changes, "removed")
             = {dPrefix \o q : q \in PathsOf(OldContent)}
        /\ Len(dInc.changes)
             = Cardinality(PathsOf(NewContent)) + Cardinality(PathsOf(OldContent))

C5_Witness ==
    /\ dInc.done
    /\ PathsOf(NewContent) \cap PathsOf(OldContent) = {}
    /\ Cardinality(PathsOf(NewContent)) >= 2
    /\ Cardinality(PathsOf(OldContent)) >= 2
    /\ \E q \in PathsOf(NewContent), r \in PathsOf(OldContent) :
          Len(q) = 3 /\ Head(q) = Head(r)

\* The trees differ only in the content of the one file at path f, and every
\* tree above f can be read.
OnlyFileDiffers(f) ==
    /\ dOld # <<>>
    /\ PathsOf(dOld[1]) = PathsOf(dNew)
    /\ f \in PathsOf(dNew)
    /\ \A x \in dNew : x \in dOld[1] <=> x[1] # f
    /\ \A k \in 0..(Len(f) - 1) :
          /\ SubAt(dNew, SubSeq(f, 1, k)) \notin unreadable
          /\ SubAt(dOld[1], SubSeq(f, 1, k)) \notin unreadable

\* C6: two trees that differ only in the identifier of one nested file give
\* exactly one entry, 'modified' for the file's full path, and only the tree
\* objects on the path from the root to the file are read.
C6_NestedModifyReadsPathOnly ==
    dInc.done =>
        \A f \in VersionedPaths :
            OnlyFileDiffers(f) =>
                /\ dInc.changes = <<Change(dPrefix \o f, "modified")>>
                /\ {dInc.reads[i] : i \in 1..Len(dInc.reads)}
                     = {SubAt(dNew, SubSeq(f, 1, k)) : k \in 0..(Len(f) - 1)}
                       \cup {SubAt(dOld[1], SubSeq(f, 1, k)) : k \in 0..(Len(f) - 1)}
                /\ Len(dInc.reads) = 2 * Len(f)

C6_Witness ==
    /\ dInc.done
    /\ OnlyFileDiffers(<<"a", "a", "a">>)
    /\ <<"b", "a">> \in PathsOf(dNew)
    /\ <<"a", "b">> \in PathsOf(dNew)

KindAt(t, q) ==
    IF \E x \in t : x[1] = q THEN "blob"
    ELSE IF \E x \in t : IsPrefix(q, x[1]) THEN "tree"
    ELSE "none"

\* Entry q is a blob in one tree and a subtree in the other, and the differ
\* reaches it: every tree above q can be read.
KindChanged(q) ==
    /\ dOld # <<>>
    /\ {KindAt(dOld[1], q), KindAt(dNew, q)} = {"blob", "tree"}
    /\ \A k \in 0..(Len(q) - 1) :
          /\ SubAt(dNew, SubSeq(q, 1, k)) \notin unreadable
          /\ SubAt(dOld[1], SubSeq(q, 1, k)) \notin unreadable

\* The entries of changes at or below path q, in their order.
ChangesBelow(changes, q) ==
    LET Below(c) == IsPrefix(q, c.filename)
    IN SelectSeq(changes, Below)

\* C7: an entry present in both trees with different kinds is reported as
\* every blob of the old shape 'removed', then every blob of the new shape
\* 'added', and never 'modified'.
C7_KindChangeIsRemoveThenAdd ==
    dInc.done =>
        \A q \in VersionedPaths :
            KindChanged(q) =>
                LET below == ChangesBelow(dInc.changes, dPrefix \o q)
                    gone == {x[1] : x \in {y \in OldContent : IsPrefix(q, y[1])}}
                    come == {x[1] : x \in {y \in NewContent : IsPrefix(q, y[1])}}
                IN /\ Len(below) = Cardinality(gone) + Cardinality(come)
                   /\ \A i \in 1..Len(below) :
                         IF i <= Cardinality(gone)
                         THEN /\ below[i].status = "removed"
                              /\ below[i].filename \in {dPrefix \o g : g \in gone}
                         ELSE /\ below[i].status = "added"
                              /\ below[i].filename \in {dPrefix \o g : g \in come}
                   /\ WithStatus(below, "removed") = {dPrefix \o g : g \in gone}
                   /\ WithStatus(below, "added") = {dPrefix \o g : g \in come}

C7_Witness ==
    /\ dInc.done
    /\ KindChanged(<<"a">>)
    /\ KindAt(dOld[1], <<"a">>) = "tree"
    /\ Cardinality({x \in OldContent : IsPrefix(<<"a">>, x[1])}) = 2
    /\ unreadable = {}

\* The file at path p of the old tree is the file at path q of the new tree,
\* in the same directory and with the same blob, and nothing else differs.
RenamedOnly(p, q) ==
    /\ dOld # <<>>
    /\ p # q
    /\ SubSeq(p, 1, Len(p) - 1) = SubSeq(q, 1, Len(q) - 1)
    /\ \E c \in BlobContents :
          /\ dOld[1] \ dNew = {<<p, c>>}
          /\ dNew \ dOld[1] = {<<q, c>>}
    /\ Readable(dOld[1]) = dOld[1]
    /\ Readable(dNew) = dNew

C9_FailSoft ==
    /\ dInc.done =>
          /\ ~dInc.threw
          /\ ChangeSet(dInc.changes)
               = ExpectedChanges(OldContent, NewContent, dPrefix)
    /\ dFlat.done =>
          /\ ~dFlat.threw
          /\ ChangeSet(dFlat.changes)
               = ExpectedChanges(OldContent, NewContent, <<>>)

C9_Witness ==
    /\ dInc.done /\ dFlat.done
    /\ \E o \in unreadable :
          /\ \E i \in 1..Len(dInc.reads) : dInc.reads[i] = o
          /\ \E i \in 1..Len(dFlat.reads) : dFlat.reads[i] = o
          /\ o # dNew
    /\ WithStatus(dInc.changes, "added") # {}
    /\ WithStatus(dInc.changes, "modified") # {}

(***************************************************************************)
(* Vocabulary of the apply properties.                                     *)
(***************************************************************************)
RECURSIVE NodePaths(_)
\* The positions of the nodes below root, each as the names leading to it.
NodePaths(root) ==
    UNION { { <<root.children[i].name>> \o q : q \in NodePaths(root.children[i]) }
            \cup { <<root.children[i].name>> } : i \in 1..Len(root.children) }

HasNode(root, path) == findFileInTree(root, path) # <<>>

NodeAt(root, path) == findFileInTree(root, path)[1]

\* Everything of a node but its children.
Attributes(node) ==
    [id |-> node.id, name |-> node.name, path |-> node.path,
     type |-> node.type, parent |-> node.parent, status |-> node.status,
     lastModified |-> node.lastModified, lastAuthor |-> node.lastAuthor,
     color |-> node.color]

ChildNames(node) == {node.children[i].name : i \in 1..Len(node.children)}

ProperPrefixes(p) == {SubSeq(p, 1, k) : k \in 1..(Len(p) - 1)}

\* The last commit carried exactly one change, of the given status.
AppliedOne(status) ==
    /\ lastCommit # <<>>
    /\ Len(lastCommit[1].files) = 1
    /\ lastCommit[1].files[1].status = status

\* C10: applying an 'added' change for path p leaves a node at every proper
\* prefix of p (a new directory node where there was none, the existing node
\* with its attributes and its other children where there was one), leaves a
\* node at p (a new file node where there was none, the existing one
\* otherwise) stamped 'added' with the commit's date and author key, adds no
\* other node, and returns that node.
C10_AddedCreatesAndStamps ==
    AppliedOne("added") =>
        LET commit == lastCommit[1]
            p == commit.files[1].filename
        IN /\ \A q \in ProperPrefixes(p) :
                 /\ HasNode(treeRef, q)
                 /\ IF HasNode(preTree, q)
                    THEN /\ Attributes(NodeAt(treeRef, q)) = Attributes(NodeAt(preTree, q))
                         /\ ChildNames(NodeAt(preTree, q)) \subseteq ChildNames(NodeAt(treeRef, q))
                    ELSE Attributes(NodeAt(treeRef, q)) =
                            [id |-> q, name |-> q[Len(q)], path |-> q,
                             type |-> "directory",
                             parent |-> <<SubSeq(q, 1, Len(q) - 1)>>,
                             status |-> Undefined, lastModified |-> <<>>,
                             lastAuthor |-> Undefined, color |-> Undefined]
           /\ HasNode(treeRef, p)
           /\ LET node == NodeAt(treeRef, p)
              IN /\ node.status = "added"
                 /\ node.lastModified = <<DateOf(commit.author.date)>>
                 /\ node.lastAuthor = AuthorKey(commit)
                 /\ IF HasNode(preTree, p)
                    THEN /\ node.type = NodeAt(preTree, p).type
                         /\ node.children = NodeAt(preTree, p).children
                         /\ node.id = NodeAt(preTree, p).id
                    ELSE /\ node.type = "file"
                         /\ node.noChildren
                         /\ node.id = p /\ node.path = p /\ node.name = p[Len(p)]
                         /\ node.parent = <<SubSeq(p, 1, Len(p) - 1)>>
           /\ NodePaths(treeRef) = NodePaths(preTree) \cup ProperPrefixes(p) \cup {p}
           /\ \A q \in NodePaths(preTree) \ (ProperPrefixes(p) \cup {p}) :
                 Attributes(NodeAt(treeRef, q)) = Attributes(NodeAt(preTree, q))
           /\ modifiedFiles = <<p>>

\* An 'added' change below an existing node two levels above a missing
\* directory: one prefix reused, one created, a new leaf.
C10_Witness ==
    /\ AppliedOne("added")
    /\ LET p == lastCommit[1].files[1].filename
       IN /\ Len(p) = 3
          /\ HasNode(preTree, SubSeq(p, 1, 1))
          /\ ~HasNode(preTree, SubSeq(p, 1, 2))
          /\ NodeAt(treeRef, p).type = "file"
          /\ NodeAt(treeRef, p).lastAuthor = "bob"
          /\ applied = 2

(***************************************************************************)
(* Vocabulary of the replay properties.                                    *)
(***************************************************************************)
RECURSIVE EraseStatus(_)
RECURSIVE EraseAll(_)
EraseAll(children) ==
    IF children = <<>> THEN <<>>
    ELSE <<EraseStatus(Head(children))>> \o EraseAll(Tail(children))

\* The tree with the transient status of every node left out.
EraseStatus(node) ==
    [node EXCEPT !.status = Undefined, !.children = EraseAll(node.children)]

FullReplay(k) == replay(createFileTree, <<>>, 0, k)

\* The paths of the file nodes of the tree that are not stamped 'removed'.
FilePaths(root) ==
    { q \in NodePaths(root) : /\ NodeAt(root, q).type = "file"
                              /\ NodeAt(root, q).status # "removed" }

C2_TreeRepresentsCommit ==
    currentCommitIndex >= 0 =>
        FilePaths(treeRef) = PathsOf(commits[currentCommitIndex + 1].tree)

\* ---- applying one commit: the other statuses ----

\* The tree with the status of the node at path p replaced.
WithStatusAt(root, p, status) ==
    stampAt(root, p, [stamped |-> FALSE, status |-> status])

\* What the last commit would have left had its only change been 'added'.
AsAdded ==
    applyAdded([root |-> preTree, modifiedNodes |-> <<>>],
               lastCommit[1].files[1], lastCommit[1])

\* C11: applying a 'modified' change for path p returns the node at p,
\* stamped 'modified' with the commit's date and author key.  Where the tree
\* had no node at p the tree is, the status of that node apart, the tree an
\* 'added' change for p leaves (every prefix of p present, a new file node at
\* p); where it had one, no node is created and the node keeps its identity,
\* type and children and every other node its attributes.
C11_ModifiedSelfHeals ==
    AppliedOne("modified") =>
        LET commit == lastCommit[1]
            p == commit.files[1].filename
        IN /\ modifiedFiles = <<p>>
           /\ HasNode(treeRef, p)
           /\ NodeAt(treeRef, p).status = "modified"
           /\ NodeAt(treeRef, p).lastModified = <<DateOf(commit.author.date)>>
           /\ NodeAt(treeRef, p).lastAuthor = AuthorKey(commit)
           /\ IF ~HasNode(preTree, p)
              THEN /\ \A q \in ProperPrefixes(p) : HasNode(treeRef, q)
                   /\ NodeAt(treeRef, p).type = "file"
                   /\ WithStatusAt(treeRef, p, "added") = AsAdded.root
                   /\ modifiedFiles = AsAdded.modifiedNodes
              ELSE /\ NodePaths(treeRef) = NodePaths(preTree)
                   /\ NodeAt(treeRef, p).id = NodeAt(preTree, p).id
                   /\ NodeAt(treeRef, p).type = NodeAt(preTree, p).type
                   /\ NodeAt(treeRef, p).children = NodeAt(preTree, p).children
                   /\ \A q \in NodePaths(preTree) \ {p} :
                         Attributes(NodeAt(treeRef, q)) = Attributes(NodeAt(preTree, q))

\* A 'modified' change for a path three levels deep none of whose directories
\* is in the tree, which holds another file.
C11_Witness ==
    /\ AppliedOne("modified")
    /\ Len(lastCommit[1].files[1].filename) = 3
    /\ NodePaths(preTree) = {<<"b">>}
    /\ HasNode(treeRef, lastCommit[1].files[1].filename)

\* C12: applying a 'removed' change for a path p that has a node stamps that
\* node 'removed' and returns it, and deletes nothing: the tree keeps every
\* node it had (the node, its siblings, its ancestors), the node keeps its
\* other attributes and every other node all of its attributes.  The cleanup
\* operation is what takes a node stamped 'removed' out of the tree.
C12_RemovalIsDeferred ==
    /\ AppliedOne("removed") /\ HasNode(preTree, lastCommit[1].files[1].filename) =>
          LET p == lastCommit[1].files[1].filename
          IN /\ modifiedFiles = <<p>>
             /\ NodePaths(treeRef) = NodePaths(preTree)
             /\ NodeAt(treeRef, p).status = "removed"
             /\ Attributes(NodeAt(treeRef, p)) =
                   [Attributes(NodeAt(preTree, p)) EXCEPT !.status = "removed"]
             /\ \A q \in NodePaths(preTree) \ {p} :
                   Attributes(NodeAt(treeRef, q)) = Attributes(NodeAt(preTree, q))
             /\ EraseStatus(treeRef) = EraseStatus(preTree)
    /\ lastOp = "cleanup" =>
          \E p \in NodePaths(preTree) :
             /\ NodeAt(preTree, p).status = "removed"
             /\ ~HasNode(treeRef, p)
             /\ NodePaths(treeRef) \subseteq NodePaths(preTree) \ {p}

\* A 'removed' change for the only file of a directory two levels deep, with
\* a stamped file next to the directories: nothing leaves the tree.
C12_Witness ==
    /\ AppliedOne("removed")
    /\ lastCommit[1].files[1].filename = <<"a", "a", "a">>
    /\ NodePaths(preTree) = {<<"a">>, <<"a", "a">>, <<"a", "a", "a">>, <<"b">>}
    /\ NodeAt(preTree, <<"a", "a", "a">>).lastModified # <<>>
    /\ NodeAt(treeRef, <<"a", "a", "a">>).status = "removed"

\* The nodes of root at or below path q.
Below(root, q) == {x \in NodePaths(root) : IsPrefix(q, x)}

\* The directory at d, above prev, holds nothing but the chain of
\* directories that leads to prev: removing prev leaves it empty.
LeftEmpty(root, prev, d) ==
    /\ HasNode(root, prev)
    /\ \A e \in ProperPrefixes(prev) :
          IsPrefix(d, e) =>
             /\ NodeAt(root, e).type = "directory"
             /\ ChildNames(NodeAt(root, e)) = {prev[Len(e) + 1]}

\* C13: applying a 'renamed' change from prev to p takes out of the tree the
\* node at prev with everything below it and every directory above it that
\* is left empty, leaves a node at p and at each prefix of p, creates and
\* deletes no other node, stamps the node at p 'modified' with the commit's
\* date and author key, and returns that node alone.
C13_RenameMovesNode ==
    AppliedOne("renamed") /\ lastCommit[1].files[1].previousFilename # <<>> =>
        LET commit == lastCommit[1]
            p == commit.files[1].filename
            prev == commit.files[1].previousFilename[1]
            gone == Below(preTree, prev)
                    \cup {d \in ProperPrefixes(prev) : LeftEmpty(preTree, prev, d)}
            kept == NodePaths(preTree) \ gone
        IN /\ NodePaths(treeRef) = kept \cup ProperPrefixes(p) \cup {p}
           /\ ~IsPrefix(prev, p) => ~HasNode(treeRef, prev)
           /\ \A q \in kept \ {p} :
                 Attributes(NodeAt(treeRef, q)) = Attributes(NodeAt(preTree, q))
           /\ NodeAt(treeRef, p).status = "modified"
           /\ NodeAt(treeRef, p).lastModified = <<DateOf(commit.author.date)>>
           /\ NodeAt(treeRef, p).lastAuthor = AuthorKey(commit)
           /\ p \notin kept =>
                 /\ NodeAt(treeRef, p).type = "file"
                 /\ NodeAt(treeRef, p).noChildren
           /\ modifiedFiles = <<p>>

\* The only file of a directory two levels deep renamed to a new path in
\* another directory: both emptied directories go, the other file stays.
C13_Witness ==
    /\ AppliedOne("renamed")
    /\ lastCommit[1].files[1].previousFilename = << <<"a", "a", "a">> >>
    /\ lastCommit[1].files[1].filename = <<"a", "b">>
    /\ NodePaths(preTree) = {<<"a">>, <<"a", "a">>, <<"a", "a", "a">>, <<"b">>}
    /\ NodePaths(treeRef) = {<<"a">>, <<"a", "b">>, <<"b">>}

\* The keys of the author registry, and the commit count under a key (0 when
\* the registry has no entry for it).
AuthorKeys(authors) == {authors[i][1] : i \in 1..Len(authors)}

CommitCount(authors, key) ==
    IF key \in AuthorKeys(authors)
    THEN authors[AuthorIndex(authors, key)][2].commitCount
    ELSE 0

RECURSIVE SumOfCounts(_)
SumOfCounts(authors) ==
    IF authors = <<>> THEN 0
    ELSE Head(authors)[2].commitCount + SumOfCounts(Tail(authors))

\* One apply step as the registry sees it: the entry under the commit's email
\* (its name when the email is empty) gains exactly one commit and is there
\* afterwards, no other entry appears or changes.
CountsOneCommit ==
    applied' = applied + 1 =>
        LET author == lastCommit'[1].author
            key == IF author.email = "" THEN author.name ELSE author.email
        IN /\ AuthorKeys(authorsRef') = AuthorKeys(authorsRef) \cup {key}
           /\ CommitCount(authorsRef', key) = CommitCount(authorsRef, key) + 1
           /\ key \notin AuthorKeys(authorsRef) =>
                 /\ CommitCount(authorsRef', key) = 1
                 /\ authorsRef'[AuthorIndex(authorsRef', key)][2].name = author.name
                 /\ authorsRef'[AuthorIndex(authorsRef', key)][2].color =
                       generateAuthorColor(author.name)
           /\ \A k \in AuthorKeys(authorsRef) \ {key} :
                 CommitCount(authorsRef', k) = CommitCount(authorsRef, k)

\* No step takes a commit away from an author.
NoCountDecreases ==
    \A k \in AuthorKeys(authorsRef) :
        CommitCount(authorsRef', k) >= CommitCount(authorsRef, k)

\* C14: every apply of a commit adds exactly one to the commit count of the
\* author keyed by email, or by name when the email is empty, and creates
\* the entry when the key is new; from the empty registry the counts always
\* sum to the number of commits applied, each key is present once, and no
\* step lowers a count.
C14_AuthorBookkeeping ==
    /\ [](/\ SumOfCounts(authorsRef) = applied
          /\ Cardinality(AuthorKeys(authorsRef)) = Len(authorsRef))
    /\ [][CountsOneCommit /\ NoCountDecreases]_vars

\* Three applies by two authors, one keyed by email with two commits and one
\* keyed by name.
C14_Witness ==
    /\ applied = 3
    /\ AuthorKeys(authorsRef) = {"ann@x", "bob"}
    /\ CommitCount(authorsRef, "ann@x") = 2
    /\ CommitCount(authorsRef, "bob") = 1

\* The i-th change of the last commit could be placed: it is not a removal,
\* or the path it removes has a node when the change is reached (a node of
\* the tree before the commit, or one an earlier change of the commit made).
\* The commits of more than one change carry no 'renamed' change, so no
\* earlier change of the commit deletes a node.
Placed(i) ==
    LET files == lastCommit[1].files
    IN \/ files[i].status # "removed"
       \/ HasNode(preTree, files[i].filename)
       \/ \E j \in 1..(i - 1) :
             /\ files[j].status \in {"added", "modified"}
             /\ IsPrefix(files[i].filename, files[j].filename)

RECURSIVE PlacedFrom(_)
\* The paths of the placed changes from the i-th on, in the commit's order.
PlacedFrom(i) ==
    IF i > Len(lastCommit[1].files) THEN <<>>
    ELSE (IF Placed(i) THEN <<lastCommit[1].files[i].filename>> ELSE <<>>)
         \o PlacedFrom(i + 1)

\* C15: the nodes an apply returns are the nodes at the paths of the commit's
\* changes that could be placed, one per such change, in the order of the
\* commit's change list; each of them is in the tree and carries the stamp of
\* a change of this commit, and nothing else is returned.
C15_ReturnsTouchedNodesInOrder ==
    lastCommit # <<>> =>
        /\ modifiedFiles = PlacedFrom(1)
        /\ \A k \in 1..Len(modifiedFiles) :
              /\ HasNode(treeRef, modifiedFiles[k])
              /\ \E i \in 1..Len(lastCommit[1].files) :
                    LET file == lastCommit[1].files[i]
                    IN /\ file.filename = modifiedFiles[k]
                       /\ NodeAt(treeRef, modifiedFiles[k]).status =
                             IF file.status = "renamed" THEN "modified"
                             ELSE file.status

\* A commit of two changes, both placed, on a tree that holds further nodes
\* the commit does not touch.
C15_Witness ==
    /\ lastCommit # <<>>
    /\ Len(lastCommit[1].files) = 2
    /\ lastCommit[1].files[1].status = "removed"
    /\ lastCommit[1].files[2].status = "modified"
    /\ modifiedFiles = << lastCommit[1].files[1].filename,
                          lastCommit[1].files[2].filename >>
    /\ Cardinality(NodePaths(treeRef)) > 3

\* The first change of the last commit is a removal of a path that has no
\* node in the tree.
FirstUnresolvable ==
    /\ lastCommit # <<>>
    /\ lastCommit[1].files[1].status = "removed"
    /\ ~HasNode(preTree, lastCommit[1].files[1].filename)

\* The last commit without its first change, applied to the tree before it.
RestApplied ==
    applyFiles([root |-> preTree, modifiedNodes |-> <<>>],
               [lastCommit[1] EXCEPT !.files = Tail(@)], 1)

\* C16: a 'removed' change for a path that has no node returns no node and
\* leaves the tree as it was (alone in its commit: the tree and the result
\* list are those of a commit without changes), and the changes after it in
\* the same commit are applied as if it were not there: their nodes are in
\* the tree, stamped and returned.
C16_UnresolvableEntrySkipped ==
    FirstUnresolvable =>
        LET files == lastCommit[1].files
        IN /\ lastCommit[1].files[1].filename \notin NodePaths(treeRef)
                 \ UNION {ProperPrefixes(files[i].filename) \cup {files[i].filename}
                            : i \in 2..Len(files)}
           /\ Len(files) = 1 => treeRef = preTree /\ modifiedFiles = <<>>
           /\ treeRef = RestApplied.root
           /\ modifiedFiles = RestApplied.modifiedNodes
           /\ \A i \in 2..Len(files) :
                 files[i].status \in {"added", "modified"} =>
                    /\ HasNode(treeRef, files[i].filename)
                    /\ NodeAt(treeRef, files[i].filename).status = files[i].status
                    /\ modifiedFiles = <<files[i].filename>>

\* A removal of a path that was never added, followed in the same commit by a
\* change that creates a node.
C16_Witness ==
    /\ FirstUnresolvable
    /\ Len(lastCommit[1].files) = 2
    /\ lastCommit[1].files[2].status = "modified"
    /\ ~HasNode(preTree, lastCommit[1].files[2].filename)
    /\ HasNode(treeRef, lastCommit[1].files[2].filename)
    /\ preTree.children # <<>>

RECURSIVE CountAll(_)
RECURSIVE CountNodes(_)
\* The number of nodes below root, every child counted.
CountNodes(root) == CountAll(root.children)

CountAll(children) ==
    IF children = <<>> THEN 0
    ELSE 1 + CountNodes(Head(children)) + CountAll(Tail(children))

\* C17: when the commit just applied is applied a second time to the tree
\* the first apply left, the tree holds the same set of node paths as after
\* the first apply and as many nodes: none is duplicated, added or deleted.
C17_ReapplyKeepsNodeSet ==
    lastOp = "again" =>
        /\ NodePaths(treeRef) = NodePaths(preTree)
        /\ CountNodes(treeRef) = CountNodes(preTree)
        /\ CountNodes(treeRef) = Cardinality(NodePaths(treeRef))

\* A commit that adds a file three levels deep applied twice in a row.
C17_Witness ==
    /\ lastOp = "again"
    /\ lastCommit[1].files[1].status = "added"
    /\ Len(lastCommit[1].files[1].filename) = 3
    /\ CountNodes(treeRef) >= 3

\* The directory nodes below the root that have no child.
EmptyDirectories(root) ==
    {q \in NodePaths(root) :
        /\ NodeAt(root, q).type = "directory"
        /\ NodeAt(root, q).children = <<>>}

\* C18: after the cleanup operation has taken a file out of the tree no
\* directory below the root is left without children; after a/b is added,
\* modified and removed by three commits and the cleanup has run, the tree
\* is the root alone.
C18_CleanupLeavesNoEmptyDirectory ==
    lastOp = "cleanup" =>
        /\ EmptyDirectories(treeRef) = {}
        /\ (/\ applied = 3
            /\ NodePaths(preTree) = {<<"a">>, <<"a", "b">>}
            /\ NodeAt(preTree, <<"a">>).type = "directory"
            /\ NodeAt(preTree, <<"a", "b">>).status = "removed")
           => NodePaths(treeRef) = {} /\ treeRef.children = <<>>

\* The scenario: a/b added, modified and removed by three commits into the
\* empty tree, then the cleanup of a/b.
C18_Witness ==
    /\ lastOp = "cleanup"
    /\ applied = 3
    /\ NodePaths(preTree) = {<<"a">>, <<"a", "b">>}
    /\ NodeAt(preTree, <<"a", "b">>).status = "removed"
    /\ NodeAt(preTree, <<"a", "b">>).lastModified = <<DateOf(CommitDate(2))>>
    /\ treeRef = createFileTree

RECURSIVE WellFormed(_)
\* Below node: sibling names are pairwise distinct, and every child's path
\* is node's path joined with the child's name, its parent being node.
WellFormed(node) ==
    /\ \A i, j \in 1..Len(node.children) :
          node.children[i].name = node.children[j].name => i = j
    /\ \A i \in 1..Len(node.children) :
          /\ node.children[i].path = node.path \o <<node.children[i].name>>
          /\ node.children[i].parent = <<node.path>>
          /\ WellFormed(node.children[i])

\* C19: in every tree that applies and cleanups reach, the children of each
\* node have pairwise distinct names, each node's path is its parent's path
\* joined with its own name, and the root is there, with the root's identity
\* and an empty path, and is a directory.
C19_TreeStructure ==
    /\ WellFormed(treeRef)
    /\ treeRef.id = RootId
    /\ treeRef.path = <<>>
    /\ treeRef.parent = <<>>
    /\ treeRef.type = "directory"
    /\ ~treeRef.noChildren

\* A tree of several levels reached by applies of every kind and a cleanup
\* that removed a directory along with its file.
C19_Witness ==
    /\ lastOp = "cleanup"
    /\ applied = 3
    /\ Cardinality(NodePaths(preTree)) - Cardinality(NodePaths(treeRef)) >= 2
    /\ \E q \in NodePaths(treeRef) : Len(q) = 2

\* ---- node kinds over a replayed history ----

\* C20: in every tree the session reaches, a node that has children is a
\* directory node, and the node at the path of each 'added' change of the
\* commit applied last is a file node.
C20_NodeKinds ==
    /\ \A q \in NodePaths(treeRef) :
          NodeAt(treeRef, q).children # <<>> => NodeAt(treeRef, q).type = "directory"
    /\ lastCommit # <<>> =>
          \A i \in 1..Len(lastCommit[1].files) :
             lastCommit[1].files[i].status = "added" =>
                NodeAt(treeRef, lastCommit[1].files[i].filename).type = "file"

(***************************************************************************)
(* The persisted cache (services/cache.ts): one IndexedDB database with    *)
(* the object stores commits, treeSnapshots, nodePositions, fileContents.  *)
(* Every cache function is async: it awaits openDB() inside a try block    *)
(* and returns, from inside that block, a promise that settles with the    *)
(* store request.  A call settles as                                       *)
(*   "value"    resolved with a value,                                     *)
(*   "absent"   resolved with null,                                        *)
(*   "resolved" resolved with nothing (writes),                            *)
(*   "rejected" rejected: the caller sees the error.                       *)
(***************************************************************************)
TREE_SNAPSHOT_INTERVAL == 50
MAX_FILE_CACHE_ENTRIES == 500
MAX_FILE_CONTENT_SIZE == 100 * 1024

\* A snapshot at every multiple of the interval, the index 0 included.
everyInterval(commitIndex) == commitIndex % TREE_SNAPSHOT_INTERVAL = 0

shouldSaveTreeSnapshot(commitIndex) ==
    commitIndex > 0 /\ commitIndex % TREE_SNAPSHOT_INTERVAL = 0

\* openDB(): dbPromise is created by the first call and returned by every
\* later one, settled as indexedDB.open settled.
openDB ==
    IF dbPromise # "null" THEN dbPromise
    ELSE IF indexedDBOpens THEN "resolved" ELSE "rejected"

Settled(outcome, value) == [outcome |-> outcome, value |-> value]

\* The failure of openDB() passed on to the caller of the cache function.
openFailureEscapes(db, requestFails, onsuccess, caught) ==
    IF db = "rejected" THEN Settled("rejected", <<>>)
    ELSE IF requestFails THEN Settled("rejected", <<>>)
    ELSE onsuccess

\* How a cache function settles.  await openDB() is inside the try block:
\* its rejection reaches the catch block, which resolves with caught.  The
\* promise around the store request is returned from the try block without
\* await, so its rejection (request.onerror) settles the function's own
\* promise and no catch block sees it.
settle(db, requestFails, onsuccess, caught) ==
    IF db = "rejected" THEN caught
    ELSE IF requestFails THEN Settled("rejected", <<>>)
    ELSE onsuccess

\* store.put(record) on a store with keyPath 'key'
Put(store, record) == {r \in store : r.key # record.key} \cup {record}

\* store.get(key): <<>> for undefined
Get(store, key) ==
    IF \E r \in store : r.key = key
    THEN <<CHOOSE r \in store : r.key = key>>
    ELSE <<>>

\* store.delete(key)
Delete(store, key) == {r \in store : r.key # key}

Absent == Settled("absent", <<>>)
Done == Settled("resolved", <<>>)

\* request.onsuccess of getCachedCommits; headSha is <<>> when not given
getCachedCommits(store, key, headSha) ==
    LET data == Get(store, key)
    IN IF data = <<>> THEN Absent
       ELSE IF isExpired(data[1].timestamp) THEN Absent
       ELSE IF headSha # <<>> /\ data[1].headSha # headSha[1] THEN Absent
       ELSE Settled("value", data[1].commits)

\* request.onsuccess of getNodePositions
getNodePositions(store, key) ==
    LET data == Get(store, key)
    IN IF data = <<>> \/ isExpired(data[1].timestamp) THEN Absent
       ELSE Settled("value", data[1])

\* request.onsuccess of getCachedFileContent; the key is `${sha}:${filepath}`
getCachedFileContent(store, sha, filepath) ==
    LET data == Get(store, <<sha, filepath>>)
    IN IF data = <<>> \/ isExpired(data[1].timestamp) THEN Absent
       ELSE Settled("value", data[1])

\* What pruneFileContentCache leaves: over the limit, the count - limit
\* first records of the byTimestamp cursor are deleted.  The cursor passes
\* the records oldest first, records of one timestamp in the order of
\* their keys.
pruneFileContentCache(store) ==
    LET count == Cardinality(store)
        deleteCount == count - MAX_FILE_CACHE_ENTRIES
        Older(r, q) == \/ r.timestamp < q.timestamp
                       \/ r.timestamp = q.timestamp /\ r.key[1] < q.key[1]
    IN IF count <= MAX_FILE_CACHE_ENTRIES THEN store
       ELSE {r \in store :
               Cardinality({q \in store : Older(q, r)}) >= deleteCount}

(***************************************************************************)
(* A session calling the cache functions, in any order, while time passes. *)
(***************************************************************************)
MaxCacheWrites == 2

CacheKeys == {RepoKey, OtherKey}

\* File contents as readFileAtCommit hands them out: a text below the size
\* limit, one at the limit, one above it, and a binary file.
FileContentOf(size, binary) ==
    [content |-> IF binary THEN "" ELSE "text", size |-> size,
     binary |-> binary, truncated |-> size > MAX_FILE_CONTENT_SIZE]

FileContents ==
    {FileContentOf(size, FALSE) :
        size \in {0, MAX_FILE_CONTENT_SIZE, MAX_FILE_CONTENT_SIZE + 1}}
    \cup {FileContentOf(0, TRUE)}

\* The commit indices snapshots are saved at, and the targets looked up.
SnapshotIndices == {TREE_SNAPSHOT_INTERVAL, 2 * TREE_SNAPSHOT_INTERVAL}

\* A call, the time it was made at, and how its promise settled.
Call(fn, args, settled) ==
    [fn |-> fn, args |-> args, at |-> now, outcome |-> settled.outcome,
     value |-> settled.value]

\* indexedDB.open succeeds or fails for the whole session.
InitCache ==
    /\ DiffIdle
    /\ TreeIdle
    /\ ReplayIdle
    /\ SessionIdle /\ ViewIdle
    /\ indexedDBOpens \in BOOLEAN
    /\ dbPromise = "null"
    /\ commitsStore = {}
    /\ nodePositionsStore = {}
    /\ fileContentsStore = {}
    /\ cacheCall = <<>>
    /\ cacheWrites = 0
    /\ fileCache = <<>>

\* The variables a cache function never touches.
CacheFrame == UNCHANGED <<viewVars, sessionVars, indexedDBOpens, fileCache, diffVars, treeVars,
                          commits, diffIndex,
                          previousTree, treeCache, currentCommitIndex, now, seek>>

\* The request of a write went through: the store is changed.
Written(requestFails) == openDB = "resolved" /\ ~requestFails

GetCachedCommits ==
    \E headSha \in {<<>>, <<1>>, <<2>>}, requestFails \in BOOLEAN :
        /\ dbPromise' = openDB
        /\ cacheCall' = Call("getCachedCommits", <<RepoKey, headSha>>,
                             settle(openDB, requestFails,
                                    getCachedCommits(commitsStore, RepoKey, headSha),
                                    Absent))
        /\ UNCHANGED <<commitsStore, nodePositionsStore, fileContentsStore,
                       treeSnapshots, cacheWrites>>
        /\ CacheFrame

CacheCommits ==
    \E commitList \in {<<>>, <<1>>, <<1, 2>>}, requestFails \in BOOLEAN :
        /\ cacheWrites < MaxCacheWrites
        /\ cacheWrites' = cacheWrites + 1
        /\ IF commitList = <<>>
           THEN /\ cacheCall' = Call("cacheCommits", <<RepoKey, commitList>>, Done)
                /\ UNCHANGED <<dbPromise, commitsStore>>
           ELSE /\ dbPromise' = openDB
                /\ cacheCall' = Call("cacheCommits", <<RepoKey, commitList>>,
                                     settle(openDB, requestFails, Done, Done))
                /\ commitsStore' =
                      IF Written(requestFails)
                      THEN Put(commitsStore,
                               [key |-> RepoKey, commits |-> commitList,
                                headSha |-> commitList[Len(commitList)],
                                timestamp |-> now])
                      ELSE commitsStore
        /\ UNCHANGED <<nodePositionsStore, fileContentsStore, treeSnapshots>>
        /\ CacheFrame

ClearCache ==
    \E requestFails \in BOOLEAN :
        /\ cacheWrites < MaxCacheWrites
        /\ cacheWrites' = cacheWrites + 1
        /\ dbPromise' = openDB
        /\ cacheCall' = Call("clearCache", <<RepoKey>>,
                             settle(openDB, requestFails, Done, Done))
        /\ commitsStore' = IF Written(requestFails)
                           THEN Delete(commitsStore, RepoKey) ELSE commitsStore
        /\ UNCHANGED <<nodePositionsStore, fileContentsStore, treeSnapshots>>
        /\ CacheFrame

ClearAllCache ==
    \E requestFails \in BOOLEAN :
        /\ cacheWrites < MaxCacheWrites
        /\ cacheWrites' = cacheWrites + 1
        /\ dbPromise' = openDB
        /\ cacheCall' = Call("clearAllCache", <<>>,
                             settle(openDB, requestFails, Done, Done))
        /\ commitsStore' = IF Written(requestFails) THEN {} ELSE commitsStore
        /\ UNCHANGED <<nodePositionsStore, fileContentsStore, treeSnapshots>>
        /\ CacheFrame

SaveTreeSnapshot ==
    \E key \in CacheKeys, commitIndex \in SnapshotIndices,
       requestFails \in BOOLEAN :
        /\ cacheWrites < MaxCacheWrites
        /\ cacheWrites' = cacheWrites + 1
        /\ dbPromise' = openDB
        /\ cacheCall' = Call("saveTreeSnapshot", <<key, commitIndex>>,
                             settle(openDB, requestFails, Done, Done))
        /\ treeSnapshots' =
              IF Written(requestFails)
              THEN saveTreeSnapshot(treeSnapshots, key, commitIndex,
                                    treeRef, authorsRef)
              ELSE treeSnapshots
        /\ UNCHANGED <<commitsStore, nodePositionsStore, fileContentsStore>>
        /\ CacheFrame

GetNearestTreeSnapshot ==
    \E key \in CacheKeys,
       targetCommitIndex \in {i - 1 : i \in SnapshotIndices} \cup SnapshotIndices,
       requestFails \in BOOLEAN :
        /\ dbPromise' = openDB
        /\ cacheCall' =
              Call("getNearestTreeSnapshot", <<key, targetCommitIndex>>,
                   settle(openDB, requestFails,
                          LET found == getNearestTreeSnapshot(treeSnapshots, key,
                                                              targetCommitIndex)
                          IN IF found = <<>> THEN Absent
                             ELSE Settled("value", found[1]),
                          Absent))
        /\ UNCHANGED <<commitsStore, nodePositionsStore, fileContentsStore,
                       treeSnapshots, cacheWrites>>
        /\ CacheFrame

ClearTreeSnapshots ==
    \E key \in CacheKeys, requestFails \in BOOLEAN :
        /\ cacheWrites < MaxCacheWrites
        /\ cacheWrites' = cacheWrites + 1
        /\ dbPromise' = openDB
        /\ cacheCall' = Call("clearTreeSnapshots", <<key>>,
                             settle(openDB, requestFails, Done, Done))
        /\ treeSnapshots' = IF Written(requestFails)
                            THEN treeSnapshots \ byKey(treeSnapshots, key)
                            ELSE treeSnapshots
        /\ UNCHANGED <<commitsStore, nodePositionsStore, fileContentsStore>>
        /\ CacheFrame

SaveNodePositions ==
    \E requestFails \in BOOLEAN :
        /\ cacheWrites < MaxCacheWrites
        /\ cacheWrites' = cacheWrites + 1
        /\ dbPromise' = openDB
        /\ cacheCall' = Call("saveNodePositions", <<RepoKey>>,
                             settle(openDB, requestFails, Done, Done))
        /\ nodePositionsStore' =
              IF Written(requestFails)
              THEN Put(nodePositionsStore,
                       [key |-> RepoKey, positions |-> <<>>,
                        commitIndex |-> currentCommitIndex, timestamp |-> now])
              ELSE nodePositionsStore
        /\ UNCHANGED <<commitsStore, fileContentsStore, treeSnapshots>>
        /\ CacheFrame

GetNodePositions ==
    \E requestFails \in BOOLEAN :
        /\ dbPromise' = openDB
        /\ cacheCall' = Call("getNodePositions", <<RepoKey>>,
                             settle(openDB, requestFails,
                                    getNodePositions(nodePositionsStore, RepoKey),
                                    Absent))
        /\ UNCHANGED <<commitsStore, nodePositionsStore, fileContentsStore,
                       treeSnapshots, cacheWrites>>
        /\ CacheFrame

ClearNodePositions ==
    \E requestFails \in BOOLEAN :
        /\ cacheWrites < MaxCacheWrites
        /\ cacheWrites' = cacheWrites + 1
        /\ dbPromise' = openDB
        /\ cacheCall' = Call("clearNodePositions", <<RepoKey>>,
                             settle(openDB, requestFails, Done, Done))
        /\ nodePositionsStore' =
              IF Written(requestFails)
              THEN Delete(nodePositionsStore, RepoKey) ELSE nodePositionsStore
        /\ UNCHANGED <<commitsStore, fileContentsStore, treeSnapshots>>
        /\ CacheFrame

CacheFileContent ==
    \E sha \in {1, 2}, file \in FileContents, requestFails \in BOOLEAN :
        /\ cacheWrites < MaxCacheWrites
        /\ cacheWrites' = cacheWrites + 1
        /\ IF file.size > MAX_FILE_CONTENT_SIZE \/ file.binary
           THEN /\ cacheCall' = Call("cacheFileContent", <<sha, file>>, Done)
                /\ UNCHANGED <<dbPromise, fileContentsStore>>
           ELSE /\ dbPromise' = openDB
                /\ cacheCall' = Call("cacheFileContent", <<sha, file>>,
                                     settle(openDB, requestFails, Done, Done))
                /\ fileContentsStore' =
                      IF Written(requestFails)
                      THEN Put(fileContentsStore,
                               [key |-> <<sha, <<"a">>>>,
                                content |-> file.content, size |-> file.size,
                                binary |-> file.binary,
                                truncated |-> file.truncated,
                                timestamp |-> now])
                      ELSE fileContentsStore
        /\ UNCHANGED <<commitsStore, nodePositionsStore, treeSnapshots>>
        /\ CacheFrame

GetCachedFileContent ==
    \E sha \in {1, 2}, requestFails \in BOOLEAN :
        /\ dbPromise' = openDB
        /\ cacheCall' = Call("getCachedFileContent", <<sha>>,
                             settle(openDB, requestFails,
                                    getCachedFileContent(fileContentsStore, sha, <<"a">>),
                                    Absent))
        /\ UNCHANGED <<commitsStore, nodePositionsStore, fileContentsStore,
                       treeSnapshots, cacheWrites>>
        /\ CacheFrame

PruneFileContentCache ==
    \E requestFails \in BOOLEAN :
        /\ cacheWrites < MaxCacheWrites
        /\ cacheWrites' = cacheWrites + 1
        /\ dbPromise' = openDB
        /\ cacheCall' = Call("pruneFileContentCache", <<>>,
                             settle(openDB, requestFails, Done, Done))
        /\ fileContentsStore' =
              IF Written(requestFails)
              THEN pruneFileContentCache(fileContentsStore)
              ELSE fileContentsStore
        /\ UNCHANGED <<commitsStore, nodePositionsStore, treeSnapshots>>
        /\ CacheFrame

ClearFileContentCache ==
    \E requestFails \in BOOLEAN :
        /\ cacheWrites < MaxCacheWrites
        /\ cacheWrites' = cacheWrites + 1
        /\ dbPromise' = openDB
        /\ cacheCall' = Call("clearFileContentCache", <<>>,
                             settle(openDB, requestFails, Done, Done))
        /\ fileContentsStore' = IF Written(requestFails) THEN {}
                                ELSE fileContentsStore
        /\ UNCHANGED <<commitsStore, nodePositionsStore, treeSnapshots>>
        /\ CacheFrame

\* Date.now() moves on: to the last day an entry written at day 0 is still
\* valid, then past it.
Tick ==
    /\ now <= CACHE_EXPIRY_DAYS
    /\ now' = IF now < CACHE_EXPIRY_DAYS THEN CACHE_EXPIRY_DAYS ELSE now + 1
    /\ UNCHANGED <<viewVars, sessionVars, storeVars, diffVars, treeVars, commits, diffIndex,
                   previousTree, treeCache, currentCommitIndex, treeSnapshots,
                   seek>>

NextCache ==
    \/ GetCachedCommits
    \/ CacheCommits
    \/ ClearCache
    \/ ClearAllCache
    \/ SaveTreeSnapshot
    \/ GetNearestTreeSnapshot
    \/ ClearTreeSnapshots
    \/ SaveNodePositions
    \/ GetNodePositions
    \/ ClearNodePositions
    \/ CacheFileContent
    \/ GetCachedFileContent
    \/ PruneFileContentCache
    \/ ClearFileContentCache
    \/ Tick

SpecCache == InitCache /\ [][NextCache]_vars

(***************************************************************************)
(* The snapshot policy, asked for every commit index of a long playback.   *)
(***************************************************************************)
MaxPolicyIndex == 100

InitPolicy ==
    /\ DiffIdle
    /\ TreeIdle
    /\ commits = <<>>
    /\ diffIndex = 0
    /\ previousTree = <<>>
    /\ treeCache = <<>>
    /\ currentCommitIndex \in 0..MaxPolicyIndex
    /\ treeSnapshots = {}
    /\ now = 0
    /\ seek = <<>>
    /\ StoreIdle
    /\ SessionIdle /\ ViewIdle

ShouldSaveTreeSnapshot ==
    /\ cacheCall = <<>>
    /\ cacheCall' = Call("shouldSaveTreeSnapshot", <<currentCommitIndex>>,
                         Settled("value", shouldSaveTreeSnapshot(currentCommitIndex)))
    /\ UNCHANGED <<viewVars, sessionVars, indexedDBOpens, dbPromise, commitsStore, nodePositionsStore,
                   fileContentsStore, cacheWrites, fileCache, diffVars,
                   treeVars, replayVars>>

SpecPolicy == InitPolicy /\ [][ShouldSaveTreeSnapshot]_vars

\* The positive multiples of the interval up to the last index asked.
PositiveMultiples ==
    {k * TREE_SNAPSHOT_INTERVAL : k \in 1..(MaxPolicyIndex \div TREE_SNAPSHOT_INTERVAL)}

Asked(fn) == cacheCall # <<>> /\ cacheCall.fn = fn

\* C21: a commit index is eligible for a snapshot exactly when it is a
\* positive multiple of the interval of 50; index 0 and every index that is
\* not a multiple are not eligible.
C21_SnapshotPolicy ==
    Asked("shouldSaveTreeSnapshot") =>
        /\ cacheCall.value = (currentCommitIndex \in PositiveMultiples)
        /\ currentCommitIndex = 0 => cacheCall.value = FALSE
        /\ currentCommitIndex % 50 # 0 => cacheCall.value = FALSE

C21_Witness ==
    /\ Asked("shouldSaveTreeSnapshot")
    /\ currentCommitIndex = 2 * TREE_SNAPSHOT_INTERVAL
    /\ cacheCall.value = TRUE

\* The snapshots a lookup of (key, t) may select.
Candidates(key, t) == {s \in treeSnapshots : s.key = key /\ s.commitIndex <= t}

\* The last call was fn and its store request, if it made one, went through.
Answered(fn) == Asked(fn) /\ cacheCall.outcome # "rejected"

\* C22: a lookup for target index t under a key returns the snapshot with
\* the greatest commitIndex <= t among those saved under that key, never one
\* of another key and never one with commitIndex > t; with no such snapshot,
\* or with the selected one older than the time-to-live, it returns absent.
C22_SnapshotSelection ==
    Answered("getNearestTreeSnapshot") =>
        LET key == cacheCall.args[1]
            t == cacheCall.args[2]
            found == cacheCall.value
        IN IF cacheCall.outcome = "absent"
           THEN \/ Candidates(key, t) = {}
                \/ \E s \in Candidates(key, t) :
                      /\ \A c \in Candidates(key, t) : c.commitIndex <= s.commitIndex
                      /\ cacheCall.at - s.timestamp > 7
           ELSE /\ found.snapshot \in Candidates(key, t)
                /\ found.snapshot.key = key
                /\ found.snapshot.commitIndex <= t
                /\ \A c \in Candidates(key, t) :
                      c.commitIndex <= found.snapshot.commitIndex
                /\ cacheCall.at - found.snapshot.timestamp <= 7

\* A lookup of 99 that returns the snapshot at 50 of its key while the
\* store holds a snapshot of the other key.
C22_Witness ==
    /\ Answered("getNearestTreeSnapshot")
    /\ cacheCall.outcome = "value"
    /\ cacheCall.args[2] = 2 * TREE_SNAPSHOT_INTERVAL - 1
    /\ cacheCall.value.snapshot.commitIndex = TREE_SNAPSHOT_INTERVAL
    /\ \E s \in treeSnapshots :
          s.key # cacheCall.args[1] /\ s.commitIndex = TREE_SNAPSHOT_INTERVAL

RECURSIVE NoParentField(_)
\* The stored form of a node and of every node below it has no parent field.
NoParentField(node) ==
    /\ "parent" \notin DOMAIN node
    /\ \A i \in 1..Len(node.children) : NoParentField(node.children[i])

RECURSIVE ParentsAre(_, _)
\* node's parent reference is parent, and the parent reference of every node
\* below it is the node that contains it.
ParentsAre(node, parent) ==
    /\ node.parent = parent
    /\ \A i \in 1..Len(node.children) :
          ParentsAre(node.children[i], <<node.path>>)

\* C23: the serialized form of a tree holds no parent back-reference at any
\* level, and deserializing it gives a tree equal to the original in
\* structure and attributes, in which each child's parent reference is the
\* node that contains it and the root has none.
C23_SnapshotRoundTrip ==
    [][\A saved \in treeSnapshots' \ treeSnapshots :
          LET stored == saved.fileTree
              restored == deserializeTree(stored, <<>>)
          IN /\ saved.commitIndex = currentCommitIndex
             /\ stored = serializeTree(treeRef)
             /\ NoParentField(stored)
             /\ restored = treeRef
             /\ ParentsAre(restored, <<>>)
             /\ serializeTree(restored) = stored]_vars

\* A seek served from a snapshot whose tree has a node two levels below the
\* root, stamped with a commit date.
C23_Witness ==
    /\ seek # <<>>
    /\ seek[1].from >= 0
    /\ \E s \in treeSnapshots :
          /\ s.key = RepoKey
          /\ s.commitIndex = seek[1].from
          /\ \E p \in NodePaths(deserializeTree(s.fileTree, <<>>)) :
                /\ Len(p) = 3
                /\ NodeAt(deserializeTree(s.fileTree, <<>>), p).lastModified # <<>>
                /\ NodeAt(deserializeTree(s.fileTree, <<>>), p).parent
                      = <<SubSeq(p, 1, 2)>>

\* C24: seek(0) on an empty commit list does not fail and leaves the empty
\* root tree and the empty author map.
C24_SeekOnEmptyList ==
    (commits = <<>> /\ lastOp = "seek") =>
        /\ thrown = "none"
        /\ treeRef = createFileTree
        /\ authorsRef = <<>>

\* The changes of commit i (counted from 1) computed with no tree cache:
\* both root trees are walked.
UncachedDiff(i) ==
    diffTrees(IF i = 1 THEN <<>> ELSE walkTree(commits[i - 1].tree).files,
              walkTree(commits[i].tree).files)

CacheReads ==
    {"getCachedCommits", "getNearestTreeSnapshot", "getNodePositions",
     "getCachedFileContent"}

\* C26: when the persisted store cannot be opened, every cache read returns
\* absent and every write, prune and clear completes normally, at the first
\* call and at every later one; nothing is stored.
C26_StorageUnavailable ==
    (~indexedDBOpens /\ cacheCall # <<>>) =>
        /\ cacheCall.fn \in CacheReads => cacheCall.outcome = "absent"
        /\ cacheCall.fn \notin CacheReads => cacheCall.outcome = "resolved"
        /\ cacheCall.value = <<>>
        /\ commitsStore = {} /\ nodePositionsStore = {}
        /\ fileContentsStore = {} /\ treeSnapshots = {}

\* A read after the open has failed once and writes have been attempted.
C26_Witness ==
    /\ ~indexedDBOpens
    /\ dbPromise = "rejected"
    /\ cacheWrites = MaxCacheWrites
    /\ Asked("getNearestTreeSnapshot")
    /\ cacheCall.outcome = "absent"

\* C27: a store request that fails after the store was opened is absorbed
\* by the cache function: reads resolve with absent, writes resolve
\* normally, and no call ends rejected.
C27_RequestErrorsAbsorbed ==
    cacheCall # <<>> =>
        /\ cacheCall.outcome # "rejected"
        /\ cacheCall.fn \in CacheReads => cacheCall.outcome \in {"absent", "value"}
        /\ cacheCall.fn \notin CacheReads => cacheCall.outcome = "resolved"

\* The entry is older than the time-to-live of 7 days at the last call.
Stale(r) == cacheCall.at - r.timestamp > 7

\* The last call read the store under key and the entry it found there, if
\* any, is older than the time-to-live: the call returned absent.
StaleIsAbsent(fn, store, key) ==
    (Answered(fn) /\ \E r \in store : r.key = key /\ Stale(r))
        => cacheCall.outcome = "absent"

\* Expired commit lists, node positions and file contents read as absent
\* entries do.
StaleKeyedEntriesAreAbsent ==
    /\ StaleIsAbsent("getCachedCommits", commitsStore, RepoKey)
    /\ StaleIsAbsent("getNodePositions", nodePositionsStore, RepoKey)
    /\ \A sha \in {1, 2} :
          (Answered("getCachedFileContent") /\ cacheCall.args[1] = sha)
              => StaleIsAbsent("getCachedFileContent", fileContentsStore,
                               <<sha, <<"a">>>>)
    /\ (Answered("getNodePositions") \/ Answered("getCachedFileContent"))
          => (cacheCall.outcome = "value" => ~Stale(cacheCall.value))

\* The snapshot of greatest commitIndex in a non-empty set of snapshots.
Greatest(snapshots) ==
    CHOOSE s \in snapshots : \A c \in snapshots : c.commitIndex <= s.commitIndex

\* The claim as stated: every lookup gives what it would give with the
\* expired entries absent from the store.
C28_Claimed_ExpiredSameAsAbsent ==
    /\ StaleKeyedEntriesAreAbsent
    /\ Answered("getNearestTreeSnapshot") =>
          LET unexpired == {s \in Candidates(cacheCall.args[1], cacheCall.args[2]) :
                              ~Stale(s)}
          IN IF unexpired = {} THEN cacheCall.outcome = "absent"
             ELSE /\ cacheCall.outcome = "value"
                  /\ cacheCall.value.snapshot = Greatest(unexpired)

\* C28: an entry older than the time-to-live of 7 days is never returned; an
\* expired commit list, node-position record or file content reads as an
\* absent one does, and a snapshot lookup whose selected snapshot is expired
\* returns absent, whatever older snapshots the key holds.
C28_ExpiredIsNeverReturned ==
    /\ StaleKeyedEntriesAreAbsent
    /\ Answered("getNearestTreeSnapshot") =>
          LET candidates == Candidates(cacheCall.args[1], cacheCall.args[2])
          IN /\ cacheCall.outcome = "value" => ~Stale(cacheCall.value.snapshot)
             /\ (candidates # {} /\ Stale(Greatest(candidates)))
                   => cacheCall.outcome = "absent"

\* A lookup that returned absent because the snapshot at 100 had expired,
\* while the key held an unexpired snapshot at 50.
C28_Witness ==
    /\ Answered("getNearestTreeSnapshot")
    /\ cacheCall.outcome = "absent"
    /\ cacheCall.args[2] = 2 * TREE_SNAPSHOT_INTERVAL
    /\ \E s, o \in byKey(treeSnapshots, cacheCall.args[1]) :
          /\ s.commitIndex = 2 * TREE_SNAPSHOT_INTERVAL /\ Stale(s)
          /\ o.commitIndex = TREE_SNAPSHOT_INTERVAL /\ ~Stale(o)

(***************************************************************************)
(* The file viewer: one file is followed through the playback, commit by   *)
(* commit, while the prefetcher loads its versions at the nearby commits.  *)
(***************************************************************************)
MAX_CACHE_SIZE == 1024

\* The history is this much longer than the cache is large.
ExtraCommits == 4

ViewerCommits == MAX_CACHE_SIZE + ExtraCommits

\* `${sha}:${filePath}` for the viewed file; the sha of commit i is i.
ViewerKey(sha) == <<sha, <<"a">>>>

\* readFileAtCommit(sha, filePath): <<"null">> when the file is not in the
\* commit, <<"throws">> for an object that cannot be read, else the content.
\* The versions of the file go through text below the size limit, binary,
\* text above the limit and text at the limit.
readFileAtCommit(sha) ==
    IF sha = 3 THEN <<"null">>
    ELSE IF sha = 7 THEN <<"throws">>
    ELSE CASE sha % 4 = 0 -> <<"content", FileContentOf(0, FALSE)>>
           [] sha % 4 = 1 -> <<"content", FileContentOf(0, TRUE)>>
           [] sha % 4 = 2 ->
                <<"content", FileContentOf(MAX_FILE_CONTENT_SIZE + 1, FALSE)>>
           [] OTHER -> <<"content", FileContentOf(MAX_FILE_CONTENT_SIZE, FALSE)>>

\* A cache that never evicts.
addToCacheUnbounded(cache, key, content) == MapSet(cache, key, content)

\* addToCache: set, then the first size - MAX_CACHE_SIZE keys are deleted.
addToCache(cache, key, content) ==
    LET set == MapSet(cache, key, content)
    IN IF Len(set) > MAX_CACHE_SIZE
       THEN SubSeq(set, Len(set) - MAX_CACHE_SIZE + 1, Len(set))
       ELSE set

\* loadContent for the commit at index: the current version from the cache
\* or from the repository, then the version of the commit before it.
loadContent(cache, index) ==
    LET cacheKey == ViewerKey(index)
        cached == MapHas(cache, cacheKey)
        content == readFileAtCommit(index)
        current == IF cached \/ content[1] # "content" THEN cache
                   ELSE addToCache(cache, cacheKey, content[2])
        prevContent == readFileAtCommit(index - 1)
        withPrevious ==
            IF \/ index = 0
               \/ MapHas(current, ViewerKey(index - 1))
               \/ prevContent[1] # "content"
            THEN current
            ELSE addToCache(current, ViewerKey(index - 1), prevContent[2])
    IN IF cached
       THEN [cache |-> withPrevious, outcome |-> "hit",
             value |-> <<MapValue(cache, cacheKey)>>]
       ELSE IF content[1] = "throws"
       THEN [cache |-> cache, outcome |-> "failed", value |-> <<>>]
       ELSE IF content[1] = "null"
       THEN [cache |-> withPrevious, outcome |-> "notFound", value |-> <<>>]
       ELSE [cache |-> withPrevious, outcome |-> "loaded",
             value |-> <<content[2]>>]

\* The commits the prefetcher goes through: the next 5, then the previous 2.
prefetchCommits(index) ==
    LET next == [i \in 1..5 |-> index + i]
        previous == [i \in 1..2 |-> index - i]
        InRange(i) == i >= 0 /\ i < ViewerCommits
    IN SelectSeq(next, InRange) \o SelectSeq(previous, InRange)

RECURSIVE prefetch(_, _)
\* The prefetch loop up to the first version it adds to the cache: cached
\* versions are skipped, a null content and a failed read are passed over.
prefetch(cache, list) ==
    IF list = <<>> THEN [cache |-> cache, sha |-> <<>>]
    ELSE LET sha == Head(list)
             content == readFileAtCommit(sha)
         IN IF MapHas(cache, ViewerKey(sha)) \/ content[1] # "content"
            THEN prefetch(cache, Tail(list))
            ELSE [cache |-> addToCache(cache, ViewerKey(sha), content[2]),
                  sha |-> <<sha>>]

\* The viewer is mounted on an empty fileCache, before the first commit.
InitViewer ==
    /\ DiffIdle
    /\ TreeIdle
    /\ ReplayIdle
    /\ StoreIdle
    /\ SessionIdle /\ ViewIdle

\* The playback moves to the next commit and the viewer shows the file there.
View ==
    /\ currentCommitIndex < ViewerCommits - 1
    /\ currentCommitIndex' = currentCommitIndex + 1
    /\ LET r == loadContent(fileCache, currentCommitIndex + 1)
       IN /\ fileCache' = r.cache
          /\ cacheCall' = Call("loadContent", <<currentCommitIndex + 1>>,
                               Settled(r.outcome, r.value))
    /\ UNCHANGED <<viewVars, sessionVars, indexedDBOpens, dbPromise, commitsStore, nodePositionsStore,
                   fileContentsStore, cacheWrites, diffVars, treeVars, commits,
                   diffIndex, previousTree, treeCache, treeSnapshots, now, seek>>

\* The prefetcher adds the next version it finds missing.
Prefetch ==
    /\ currentCommitIndex >= 0
    /\ LET r == prefetch(fileCache, prefetchCommits(currentCommitIndex))
       IN /\ r.sha # <<>>
          /\ fileCache' = r.cache
          /\ cacheCall' = Call("prefetch", r.sha,
                               Settled("loaded",
                                       <<readFileAtCommit(r.sha[1])[2]>>))
    /\ UNCHANGED currentCommitIndex
    /\ UNCHANGED <<viewVars, sessionVars, indexedDBOpens, dbPromise, commitsStore, nodePositionsStore,
                   fileContentsStore, cacheWrites, diffVars, treeVars, commits,
                   diffIndex, previousTree, treeCache, treeSnapshots, now, seek>>

NextViewer ==
    \/ View
    \/ Prefetch

SpecViewer == InitViewer /\ [][NextViewer]_vars

\* The newest 1024 entries of the cache with the entry appended.
NewestWith(cache, entry) ==
    LET all == Append(cache, entry)
    IN IF Len(all) > 1024 THEN SubSeq(all, Len(all) - 1023, Len(all)) ELSE all

\* C29: after every insertion the content cache holds at most 1024 entries,
\* the entries gone are the oldest-inserted ones and no others, the entry
\* just written is readable, and a read leaves the cache and its order as
\* they are.
C29_ContentCacheEviction ==
    [][/\ Len(fileCache') <= 1024
       /\ cacheCall'.outcome = "loaded" =>
             LET key == ViewerKey(cacheCall'.args[1])
                 content == cacheCall'.value[1]
             IN /\ fileCache' = NewestWith(fileCache, <<key, content>>)
                /\ MapHas(fileCache', key)
                /\ MapValue(fileCache', key) = content
       /\ cacheCall'.outcome = "hit" => fileCache' = fileCache]_vars

\* The cache is full and its two oldest entries have been evicted; the last
\* entry is the one just written.
C29_Witness ==
    /\ Len(fileCache) = 1024
    /\ fileCache[1][1] = ViewerKey(2)
    /\ cacheCall.outcome = "loaded"
    /\ fileCache[1024][1] = ViewerKey(cacheCall.args[1])

\* C30: no view or prefetch leaves in the content cache an entry that is
\* flagged binary or larger than the size threshold.
C30_NoBinaryOrOversizeCached ==
    \A i \in 1..Len(fileCache) :
        /\ ~fileCache[i][2].binary
        /\ fileCache[i][2].size <= MAX_FILE_CONTENT_SIZE

(***************************************************************************)
(* The application session (App.tsx) on top of fetchCommitsWithFiles and   *)
(* its background diff task (services/git.ts).  Every await of the code is *)
(* a step boundary: a handler runs from one await to the next.             *)
(***************************************************************************)
MaxFetches == 2
YIELD_EVERY == 5

\* The logs git.log answers with, as root trees oldest first.
SessionHistories ==
    { <<>>,
      << { << <<"a">>, 1 >> }, { << <<"a">>, 2 >>, << <<"b">>, 1 >> },
         { << <<"a">>, 2 >> } >> }

\* if (diffComputationAbort) { diffComputationAbort(); ... }: the flag of
\* the task the handle belongs to is set.
abortPrevious ==
    IF diffComputationAbort = 0 THEN tasks
    ELSE [tasks EXCEPT ![diffComputationAbort].aborted = TRUE]

\* A loop that ends after its first iteration.
loopOnce(task, i) == [task EXCEPT !.i = i, !.pc = <<"done">>]

\* The head of the for loop at index i: the bound, then if (aborted) break.
loopTop(task, i) ==
    IF i >= Len(task.list) THEN [task EXCEPT !.i = i, !.pc = <<"done">>]
    ELSE IF task.aborted THEN [task EXCEPT !.i = i, !.pc = <<"stopped">>]
    ELSE [task EXCEPT !.i = i, !.pc = <<"read">>]

\* startBackgroundDiffComputation up to its first await.
startBackgroundDiffComputation(task) ==
    loopTop([task EXCEPT !.aborted = FALSE, !.previousTree = <<>>], 0)

\* A reader that finds every commit object.
readsEveryCommit(commit) == FALSE

\* git.readCommit throws for a commit object that is missing.
readCommitThrows(commit) == commit.sha \in lostCommits

\* The body of the loop from the return of the awaited reads to the next
\* await: when readCommit throws, the catch skips the commit.
iteration(task) ==
    LET commit == task.list[task.i + 1]
        caught == readCommitThrows(commit)
        cached == MapHas(treeCache, commit.tree)
        currentTree == IF cached THEN cachedTree(commit.tree)
                       ELSE walkTree(commit.tree).files
        after == IF caught THEN task
                 ELSE [task EXCEPT
                          !.list[task.i + 1].files =
                              diffTrees(task.previousTree, currentTree),
                          !.previousTree = currentTree]
    IN [task |-> IF task.i % YIELD_EVERY = 0
                 THEN [after EXCEPT !.pc = <<"yield">>]
                 ELSE loopTop(after, task.i + 1),
        cache |-> IF caught \/ cached THEN treeCache
                  ELSE MapSet(treeCache, commit.tree, currentTree)]

\* What no step of the session touches.
SessionFrame ==
    UNCHANGED <<viewVars, storeVars, diffVars, diffIndex, previousTree, treeSnapshots,
                now, seek, urlAt, lostCommits>>

\* What a step of the application or of a fetch leaves alone.
AppFrame == SessionFrame /\ UNCHANGED taskSteps

InitSession ==
    /\ ViewIdle
    /\ TreeIdle
    /\ ReplayIdle
    /\ StoreIdle
    /\ DiffIdle
    /\ appState = "input"
    /\ isPlaying = FALSE
    /\ error = "null"
    /\ urlAt \in { <<>>, <<1>> }
    /\ diffComputationAbort = 0
    /\ tasks = <<>>
    /\ owner = 0
    /\ lostCommits = {}
    /\ taskSteps = 0

\* handleRepoSubmit up to the first await of fetchCommitsWithFiles.
handleRepoSubmit ==
    /\ appState = "input"
    /\ Len(tasks) < MaxFetches
    /\ \E branch \in {"main", "dev"} :
          tasks' = Append(abortPrevious,
                          [pc |-> <<"clone", branch>>, aborted |-> FALSE,
                           i |-> 0, previousTree |-> <<>>, list |-> <<>>])
    /\ diffComputationAbort' = 0
    /\ treeCache' = <<>>
    /\ error' = "null"
    /\ appState' = "loading"
    /\ AppFrame
    /\ UNCHANGED <<treeVars, commits, currentCommitIndex, isPlaying, owner>>

\* A failure after which the visualization is shown all the same.
failureShown(t, message) ==
    /\ tasks' = [tasks EXCEPT ![t].pc = <<"failed">>]
    /\ error' = message
    /\ appState' = "visualizing"

\* fetchCommitsWithFiles rejects and the catch of handleRepoSubmit runs.
fetchFails(t, message) ==
    /\ tasks' = [tasks EXCEPT ![t].pc = <<"failed">>]
    /\ error' = message
    /\ appState' = "input"

\* git.clone settles: on the requested branch, then for 'main' on 'master'.
Clone(t) ==
    /\ tasks[t].pc[1] = "clone"
    /\ \E ok \in BOOLEAN :
          IF ok
          THEN /\ tasks' = [tasks EXCEPT ![t].pc = <<"log">>]
               /\ UNCHANGED <<error, appState>>
          ELSE IF tasks[t].pc[2] = "main"
          THEN /\ tasks' = [tasks EXCEPT ![t].pc = <<"clone", "master">>]
               /\ UNCHANGED <<error, appState>>
          ELSE fetchFails(t, IF tasks[t].pc[2] = "master" THEN "clone error"
                             ELSE "Failed to clone repository")
    /\ AppFrame
    /\ UNCHANGED <<treeVars, commits, currentCommitIndex, isPlaying, owner,
                   diffComputationAbort, treeCache>>

\* git.log settles.  On success the commits are built with empty file lists,
\* the background task is started and the list is returned to
\* handleRepoSubmit, which shows it unless it is empty.
Log(t) ==
    /\ tasks[t].pc = <<"log">>
    /\ \/ /\ fetchFails(t, "log error")
          /\ UNCHANGED <<treeVars, commits, currentCommitIndex, isPlaying,
                         owner, diffComputationAbort>>
       \/ \E history \in SessionHistories :
             LET started == startBackgroundDiffComputation(
                                [tasks[t] EXCEPT !.list = LogCommits(history)])
             IN /\ tasks' = [tasks EXCEPT ![t] = started]
                /\ diffComputationAbort' = t
                /\ IF history = <<>>
                   THEN /\ error' = "No commits found in this repository"
                        /\ appState' = "input"
                        /\ UNCHANGED <<treeVars, commits, currentCommitIndex,
                                       isPlaying, owner>>
                   ELSE /\ treeRef' = createFileTree
                        /\ authorsRef' = <<>>
                        /\ modifiedFiles' = <<>>
                        /\ applied' = 0
                        /\ lastCommit' = <<>>
                        /\ preTree' = treeRef
                        /\ lastOp' = "load"
                        /\ thrown' = "none"
                        /\ commits' = started.list
                        /\ owner' = t
                        /\ currentCommitIndex' = -1
                        /\ appState' = "visualizing"
                        /\ isPlaying' = FALSE
                        /\ UNCHANGED error
    /\ AppFrame
    /\ UNCHANGED treeCache

\* The background task resumes after the reads of one iteration: it writes
\* the file list into the commit of the array it was given, which is the
\* array the application shows when it owns it.
BackgroundIteration(t) ==
    /\ tasks[t].pc = <<"read">>
    /\ LET r == iteration(tasks[t])
       IN /\ tasks' = [tasks EXCEPT ![t] = r.task]
          /\ treeCache' = r.cache
          /\ commits' = IF owner = t THEN r.task.list ELSE commits
    /\ taskSteps' = taskSteps + 1
    /\ SessionFrame
    /\ UNCHANGED <<treeVars, currentCommitIndex, appState, isPlaying, error,
                   owner, diffComputationAbort>>

\* The task resumes after the setTimeout(0) it yielded on.
BackgroundResume(t) ==
    /\ tasks[t].pc = <<"yield">>
    /\ tasks' = [tasks EXCEPT ![t] = loopTop(tasks[t], tasks[t].i + 1)]
    /\ taskSteps' = taskSteps + 1
    /\ SessionFrame
    /\ UNCHANGED <<treeVars, commits, currentCommitIndex, appState, isPlaying,
                   error, owner, diffComputationAbort, treeCache>>

\* The auto-start effect, 500 ms after the list is shown.
AutoStart ==
    /\ appState = "visualizing"
    /\ currentCommitIndex = -1
    /\ Len(commits) > 0
    /\ LET targetIndex == IF urlAt = <<>> THEN 0
                          ELSE IF urlAt[1] < Len(commits) - 1 THEN urlAt[1]
                          ELSE Len(commits) - 1
       IN IF targetIndex > 0
          THEN LET r == replay(treeRef, authorsRef, 0, targetIndex)
               IN /\ treeRef' = r.root
                  /\ authorsRef' = r.authors
                  /\ currentCommitIndex' = targetIndex
                  /\ modifiedFiles' = <<>>
                  /\ isPlaying' = FALSE
                  /\ applied' = applied + targetIndex + 1
                  /\ lastCommit' = <<>>
                  /\ preTree' = treeRef
                  /\ lastOp' = "seek"
                  /\ thrown' = "none"
          ELSE /\ applyToLive(commits[1])
               /\ lastOp' = "apply"
               /\ currentCommitIndex' = 0
               /\ isPlaying' = TRUE
    /\ AppFrame
    /\ UNCHANGED <<commits, appState, error, owner, diffComputationAbort, tasks,
                   treeCache>>

\* A playback that leaves one commit out.
skippingIndex == currentCommitIndex + 2

\* const nextIndex = currentIndexRef.current + 1
nextIndex == currentCommitIndex + 1

\* One due frame of the playback effect.
tick ==
    /\ isPlaying
    /\ appState = "visualizing"
    /\ IF nextIndex >= Len(commits)
       THEN /\ isPlaying' = FALSE
            /\ lastOp' = "tick"
            /\ UNCHANGED <<treeRef, authorsRef, modifiedFiles, applied,
                           lastCommit, preTree, thrown, currentCommitIndex>>
       ELSE /\ applyToLive(commits[nextIndex + 1])
            /\ lastOp' = "apply"
            /\ currentCommitIndex' = nextIndex
            /\ UNCHANGED isPlaying
    /\ AppFrame
    /\ UNCHANGED <<commits, appState, error, owner, diffComputationAbort, tasks,
                   treeCache>>

\* onPlayPause: setIsPlaying(!isPlaying)
PlayPause ==
    /\ appState = "visualizing"
    /\ isPlaying' = ~isPlaying
    /\ AppFrame
    /\ UNCHANGED <<treeVars, commits, currentCommitIndex, appState, error, owner,
                   diffComputationAbort, tasks, treeCache>>

\* handleSkipForward with its processCommit, at any time of the session.
SkipForward ==
    /\ appState = "visualizing"
    /\ IF currentCommitIndex < Len(commits) - 1
       THEN /\ applyToLive(commits[currentCommitIndex + 2])
            /\ lastOp' = "apply"
            /\ currentCommitIndex' = currentCommitIndex + 1
       ELSE /\ lastOp' = "skipForward"
            /\ UNCHANGED <<treeRef, authorsRef, modifiedFiles, applied,
                           lastCommit, preTree, thrown, currentCommitIndex>>
    /\ AppFrame
    /\ UNCHANGED <<commits, appState, isPlaying, error, owner,
                   diffComputationAbort, tasks, treeCache>>

\* A skip-back that seeks from every index.
skipBackUnguarded ==
    /\ appState = "visualizing"
    /\ handleSeek(currentCommitIndex - 1)

\* handleSkipBack
SkipBack ==
    /\ appState = "visualizing"
    /\ IF currentCommitIndex > 0
       THEN handleSeek(currentCommitIndex - 1)
       ELSE /\ lastOp' = "skipBack"
            /\ UNCHANGED <<treeRef, authorsRef, modifiedFiles, applied,
                           lastCommit, preTree, thrown, currentCommitIndex>>
            /\ AppFrame
            /\ UNCHANGED <<commits, sessionVars, treeCache>>

\* The timeline slider of the visualizing screen.
Seek ==
    /\ appState = "visualizing"
    /\ \E targetIndex \in 0..(Len(commits) - 1) : handleSeek(targetIndex)

\* handleReset
handleReset ==
    /\ appState = "visualizing"
    /\ appState' = "input"
    /\ commits' = <<>>
    /\ owner' = 0
    /\ currentCommitIndex' = -1
    /\ treeRef' = createFileTree
    /\ authorsRef' = <<>>
    /\ modifiedFiles' = <<>>
    /\ isPlaying' = FALSE
    /\ error' = "null"
    /\ applied' = 0
    /\ lastCommit' = <<>>
    /\ preTree' = treeRef
    /\ lastOp' = "reset"
    /\ thrown' = "none"
    /\ AppFrame
    /\ UNCHANGED <<diffComputationAbort, tasks, treeCache>>

NextSession ==
    \/ handleRepoSubmit
    \/ \E t \in 1..Len(tasks) : Clone(t)
    \/ \E t \in 1..Len(tasks) : Log(t)
    \/ \E t \in 1..Len(tasks) : BackgroundIteration(t)
    \/ \E t \in 1..Len(tasks) : BackgroundResume(t)
    \/ AutoStart
    \/ tick
    \/ PlayPause
    \/ SkipForward
    \/ SkipBack
    \/ Seek
    \/ handleReset

SpecSession == InitSession /\ [][NextSession]_vars

(***************************************************************************)
(* The background diff task on its own, from the moment the list has been  *)
(* returned and is shown: longer histories, commit and tree objects that   *)
(* cannot be read, and the cancellation by a reset followed by a submit.   *)
(* The event loop resumes every settled await: the steps of the task are   *)
(* weakly fair.                                                            *)
(***************************************************************************)
\* A history long enough for the task to yield twice.
LongHistory ==
    LET one == { << <<"a">>, 1 >> }
        two == { << <<"a">>, 2 >>, << <<"b">>, 1 >> }
        three == { << <<"a">>, 2 >> }
    IN <<one, two, three, one, two, three, one>>

InitBackground ==
    /\ ViewIdle
    /\ TreeIdle
    /\ StoreIdle
    /\ \E history \in (Histories \ {<<>>}) \cup {LongHistory} :
          /\ tasks = <<startBackgroundDiffComputation(
                          [pc |-> <<"log">>, aborted |-> FALSE, i |-> 0,
                           previousTree |-> <<>>,
                           list |-> LogCommits(history)])>>
          /\ commits = LogCommits(history)
          /\ \E lost \in SUBSET (0..(Len(history) - 1)) :
                /\ Cardinality(lost) <= MaxUnreadable
                /\ lostCommits = lost
          /\ \E u \in SUBSET {history[i] : i \in 1..Len(history)} :
                /\ Cardinality(u) <= MaxUnreadable
                /\ unreadable = u
    /\ dOld = <<>>
    /\ dNew = {}
    /\ dPrefix = <<>>
    /\ dInc = NotRun
    /\ dFlat = NotRun
    /\ diffIndex = 0
    /\ previousTree = <<>>
    /\ treeCache = <<>>
    /\ currentCommitIndex = -1
    /\ treeSnapshots = {}
    /\ now = 0
    /\ seek = <<>>
    /\ appState = "visualizing"
    /\ isPlaying = FALSE
    /\ error = "null"
    /\ urlAt = <<>>
    /\ diffComputationAbort = 1
    /\ owner = 1
    /\ taskSteps = 0

\* The event loop resumes a task that awaits a read or its timer.
BackgroundStep ==
    /\ \E t \in 1..Len(tasks) : tasks[t].pc \in {<<"read">>, <<"yield">>}
    /\ taskSteps' = taskSteps + 1

NextBackground ==
    \/ \E t \in 1..Len(tasks) : BackgroundIteration(t)
    \/ \E t \in 1..Len(tasks) : BackgroundResume(t)
    \/ handleReset
    \/ handleRepoSubmit

SpecBackground ==
    InitBackground /\ [][NextBackground]_vars /\ WF_taskSteps(BackgroundStep)


(***************************************************************************)
(* The file viewer under changing props: every change of the viewed file   *)
(* or of the current commit runs the cleanups of the two effects and then  *)
(* the effects, while the reads of the loads and prefetches started before *)
(* settle in any order.  A render and the effects it triggers are one      *)
(* step.                                                                   *)
(***************************************************************************)
MaxRequests == 2

\* The history the viewer goes through: the second commit modifies "a" and
\* removes "b".
ViewHistory ==
    << { << <<"a">>, 1 >>, << <<"b">>, 1 >> },
       { << <<"a">>, 2 >> } >>

\* The filePath props: null and the two files.
ViewPaths == { <<>>, <<"a">>, <<"b">> }

RECURSIVE filledFrom(_, _, _)
\* The commit list once the background diff has gone through it.
filledFrom(list, i, previous) ==
    IF i > Len(list) THEN list
    ELSE LET currentTree == walkTree(list[i].tree).files
         IN filledFrom([list EXCEPT ![i].files = diffTrees(previous, currentTree)],
                       i + 1, currentTree)

\* The text of a version of a file.
VersionOf(filepath, blob) ==
    [content |-> <<filepath, blob>>, size |-> blob, binary |-> FALSE,
     truncated |-> FALSE]

\* What readFileAtCommit(sha, filePath) resolves to when it does not throw:
\* <<>> (null) when the commit has no such file, else the content.
fileAtCommit(sha, filepath) ==
    LET tree == commits[sha + 1].tree
    IN IF \E e \in tree : e[1] = filepath
       THEN <<VersionOf(filepath, (CHOOSE e \in tree : e[1] = filepath)[2])>>
       ELSE <<>>

\* `${commit.sha}:${filePath}`
contentKey(sha, filepath) == <<sha, filepath>>

RECURSIVE fileCommitsFrom(_, _)
\* fileCommits: the indices of the commits whose files name the path, from
\* index i on.
fileCommitsFrom(filepath, i) ==
    IF i >= Len(commits) THEN <<>>
    ELSE LET rest == fileCommitsFrom(filepath, i + 1)
             files == commits[i + 1].files
         IN IF \E j \in 1..Len(files) : files[j].filename = filepath
            THEN <<i>> \o rest
            ELSE rest

fileCommits(filepath) == fileCommitsFrom(filepath, 0)

\* fileCommits.findIndex(fc => fc.index === currentCommitIndex)
findCommitIndex(list, index) ==
    IF \E j \in 1..Len(list) : list[j] = index
    THEN (CHOOSE j \in 1..Len(list) : list[j] = index) - 1
    ELSE -1

\* What the viewer shows and the module-level cache, as one value.
Shown ==
    [fileContent |-> fileContent, previousContent |-> previousContent,
     loading |-> loading, viewerError |-> viewerError, fileCache |-> fileCache]

\* No operation ever counts as cancelled.
neverAborted(op) == FALSE

\* abortController.signal.aborted
signalAborted(op) == op.aborted

\* controller?.abort() on the controller the ref holds
abortRef(ops, ref) ==
    IF ref = 0 THEN ops ELSE [ops EXCEPT ![ref].aborted = TRUE]

\* loadContent from 'Load previous version for diff' up to its next await
\* or its end.
loadPrevious(v, load) ==
    LET list == fileCommits(load.filePath)
        prevCommitIndex == findCommitIndex(list, load.index)
        prevCacheKey == contentKey(commits[list[prevCommitIndex] + 1].sha,
                                   load.filePath)
    IN IF prevCommitIndex > 0
       THEN IF MapHas(v.fileCache, prevCacheKey)
            THEN [v |-> [v EXCEPT !.previousContent =
                                     <<MapValue(v.fileCache, prevCacheKey)>>,
                                  !.loading = FALSE],
                  pc |-> "done"]
            ELSE [v |-> v, pc |-> "previous"]
       ELSE [v |-> [v EXCEPT !.previousContent = <<>>, !.loading = FALSE],
             pc |-> "done"]

\* The catch block of loadContent.
loadCatch(v, load) ==
    IF signalAborted(load) THEN [v |-> v, pc |-> "stopped"]
    ELSE [v |-> [v EXCEPT !.loading = FALSE,
                          !.viewerError = "Failed to load file content"],
          pc |-> "failed"]

\* loadContent after 'await readFileAtCommit(currentCommit.sha, filePath)'
\* resolved with content.
loadCurrentResolved(v, load, content) ==
    IF signalAborted(load) THEN [v |-> v, pc |-> "stopped"]
    ELSE loadPrevious(
            IF content # <<>>
            THEN [v EXCEPT !.fileCache =
                              addToCache(v.fileCache,
                                         contentKey(load.sha, load.filePath),
                                         content[1]),
                           !.fileContent = content]
            ELSE [v EXCEPT !.viewerError = "File not found at this commit"],
            load)

\* loadContent after 'await readFileAtCommit(prevCommit.sha, filePath)'
\* resolved with prevContent.
loadPreviousResolved(v, load, prevSha, prevContent) ==
    IF signalAborted(load) THEN [v |-> v, pc |-> "stopped"]
    ELSE IF prevContent # <<>>
    THEN [v |-> [v EXCEPT !.fileCache =
                             addToCache(v.fileCache,
                                        contentKey(prevSha, load.filePath),
                                        prevContent[1]),
                          !.previousContent = prevContent,
                          !.loading = FALSE],
          pc |-> "done"]
    ELSE [v |-> [v EXCEPT !.previousContent = <<>>, !.loading = FALSE],
          pc |-> "done"]

\* The body of the main effect for a file and a commit, up to the first
\* await of loadContent.
mainEffect(v, path, index) ==
    LET load == [sha |-> commits[index + 1].sha, index |-> index,
                 filePath |-> path[1], aborted |-> FALSE]
        cacheKey1 == contentKey(load.sha, load.filePath)
        cached == MapHas(v.fileCache, cacheKey1)
        r == IF cached
             THEN loadPrevious([v EXCEPT !.fileContent =
                                            <<MapValue(v.fileCache, cacheKey1)>>,
                                         !.viewerError = "null"], load)
             ELSE [v |-> [v EXCEPT !.loading = TRUE, !.viewerError = "null"],
                   pc |-> "current"]
    IN [v |-> r.v,
        load |-> [sha |-> load.sha, index |-> index, filePath |-> load.filePath,
                  aborted |-> FALSE, pc |-> r.pc]]

RECURSIVE nextCommits(_, _)
\* for (i = currentCommitIndex + 1; i < commits.length && length < 5; i++)
nextCommits(i, list) ==
    IF i < Len(commits) /\ Len(list) < 5
    THEN nextCommits(i + 1, Append(list, commits[i + 1].sha))
    ELSE list

RECURSIVE previousCommits(_, _)
\* for (i = currentCommitIndex - 1; i >= 0 && length < 7; i--)
previousCommits(i, list) ==
    IF i >= 0 /\ Len(list) < 7
    THEN previousCommits(i - 1, Append(list, commits[i + 1].sha))
    ELSE list

\* prefetchCommits of the prefetch effect
prefetchList(index) == previousCommits(index - 1, nextCommits(index + 1, <<>>))

RECURSIVE prefetchLoop(_, _, _)
\* for (const commit of prefetchCommits) from position k up to the next
\* await readFileAtCommit or the end of the loop.
prefetchLoop(cache, p, k) ==
    IF k > Len(p.list) THEN [p EXCEPT !.pc = "done", !.k = k]
    ELSE IF signalAborted(p) THEN [p EXCEPT !.pc = "stopped", !.k = k]
    ELSE IF MapHas(cache, contentKey(p.list[k], p.filePath))
    THEN prefetchLoop(cache, p, k + 1)
    ELSE [p EXCEPT !.pc = "read", !.k = k]

\* The frame of the steps of the viewer.
ViewFrame ==
    UNCHANGED <<diffVars, treeVars, sessionVars, indexedDBOpens, dbPromise,
                commitsStore, nodePositionsStore, fileContentsStore, cacheCall,
                cacheWrites, commits, diffIndex, previousTree, treeCache,
                treeSnapshots, now, seek>>

\* The five parts of Shown written back.
show(v) ==
    /\ fileContent' = v.fileContent
    /\ previousContent' = v.previousContent
    /\ loading' = v.loading
    /\ viewerError' = v.viewerError
    /\ fileCache' = v.fileCache

InitRequests ==
    /\ DiffIdle
    /\ TreeIdle
    /\ StoreIdle
    /\ SessionIdle
    /\ ViewIdle
    /\ commits = filledFrom(LogCommits(ViewHistory), 1, <<>>)
    /\ diffIndex = Len(ViewHistory)
    /\ previousTree = <<>>
    /\ treeCache = <<>>
    /\ currentCommitIndex = 0
    /\ treeSnapshots = {}
    /\ now = 0
    /\ seek = <<>>

\* The props change: the cleanups of the two effects run, then the main
\* effect and the prefetch effect.
ChangeProps ==
    /\ Len(loads) < MaxRequests
    /\ \E path \in ViewPaths, index \in 0..(Len(commits) - 1) :
          /\ <<path, index>> # <<filePath, currentCommitIndex>>
          /\ filePath' = path
          /\ currentCommitIndex' = index
          /\ LET oldLoads == abortRef(loads, abortControllerRef)
                 oldPrefetches == abortRef(prefetches, prefetchAbortRef)
             IN IF path = <<>> \/ index < 0
                THEN /\ fileContent' = <<>>
                     /\ previousContent' = <<>>
                     /\ viewerError' = "null"
                     /\ loads' = oldLoads
                     /\ prefetches' = oldPrefetches
                     /\ UNCHANGED <<loading, fileCache, abortControllerRef,
                                    prefetchAbortRef>>
                ELSE LET m == mainEffect(Shown, path, index)
                         p == [filePath |-> path[1], list |-> prefetchList(index),
                               k |-> 1, pc |-> "read", aborted |-> FALSE,
                               threw |-> FALSE]
                     IN /\ show(m.v)
                        /\ loads' = Append(oldLoads, m.load)
                        /\ abortControllerRef' = Len(loads) + 1
                        /\ prefetches' =
                              Append(oldPrefetches,
                                     prefetchLoop(m.v.fileCache, p, 1))
                        /\ prefetchAbortRef' = Len(prefetches) + 1
    /\ ViewFrame

\* 'await readFileAtCommit(currentCommit.sha, filePath)' of a load settles.
LoadCurrentSettles(l) ==
    /\ loads[l].pc = "current"
    /\ \E throws \in BOOLEAN :
          LET r == IF throws THEN loadCatch(Shown, loads[l])
                   ELSE loadCurrentResolved(Shown, loads[l],
                            fileAtCommit(loads[l].sha, loads[l].filePath))
          IN /\ show(r.v)
             /\ loads' = [loads EXCEPT ![l].pc = r.pc]
    /\ UNCHANGED <<filePath, currentCommitIndex, prefetches,
                   abortControllerRef, prefetchAbortRef>>
    /\ ViewFrame

\* 'await readFileAtCommit(prevCommit.sha, filePath)' of a load settles.
LoadPreviousSettles(l) ==
    /\ loads[l].pc = "previous"
    /\ \E throws \in BOOLEAN :
          LET list == fileCommits(loads[l].filePath)
              prevSha == commits[list[findCommitIndex(list, loads[l].index)] + 1].sha
              r == IF throws THEN loadCatch(Shown, loads[l])
                   ELSE loadPreviousResolved(Shown, loads[l], prevSha,
                            fileAtCommit(prevSha, loads[l].filePath))
          IN /\ show(r.v)
             /\ loads' = [loads EXCEPT ![l].pc = r.pc]
    /\ UNCHANGED <<filePath, currentCommitIndex, prefetches,
                   abortControllerRef, prefetchAbortRef>>
    /\ ViewFrame

\* 'await readFileAtCommit(commit.sha, filePath)' of a prefetch settles: a
\* failure is caught and ignored, a content is cached unless the prefetch
\* was cancelled; the delay between two prefetches follows.
PrefetchSettles(p) ==
    /\ prefetches[p].pc = "read"
    /\ \E throws \in BOOLEAN :
          LET op == prefetches[p]
              content == fileAtCommit(op.list[op.k], op.filePath)
          IN IF throws
             THEN /\ prefetches' = [prefetches EXCEPT ![p].pc = "delay",
                                                      ![p].threw = TRUE]
                  /\ UNCHANGED fileCache
             ELSE IF signalAborted(op)
             THEN /\ prefetches' = [prefetches EXCEPT ![p].pc = "stopped"]
                  /\ UNCHANGED fileCache
             ELSE /\ prefetches' = [prefetches EXCEPT ![p].pc = "delay"]
                  /\ fileCache' =
                        IF content # <<>>
                        THEN addToCache(fileCache,
                                        contentKey(op.list[op.k], op.filePath),
                                        content[1])
                        ELSE fileCache
    /\ UNCHANGED <<filePath, currentCommitIndex, fileContent, previousContent,
                   loading, viewerError, loads, abortControllerRef,
                   prefetchAbortRef>>
    /\ ViewFrame

\* The 50 ms delay of a prefetch ends and its loop goes on.
PrefetchDelayEnds(p) ==
    /\ prefetches[p].pc = "delay"
    /\ prefetches' = [prefetches EXCEPT
                         ![p] = prefetchLoop(fileCache, prefetches[p],
                                             prefetches[p].k + 1)]
    /\ UNCHANGED <<filePath, currentCommitIndex, fileContent, previousContent,
                   loading, viewerError, fileCache, loads, abortControllerRef,
                   prefetchAbortRef>>
    /\ ViewFrame

NextRequests ==
    \/ ChangeProps
    \/ \E l \in 1..Len(loads) : LoadCurrentSettles(l)
    \/ \E l \in 1..Len(loads) : LoadPreviousSettles(l)
    \/ \E p \in 1..Len(prefetches) : PrefetchSettles(p)
    \/ \E p \in 1..Len(prefetches) : PrefetchDelayEnds(p)

SpecRequests == InitRequests /\ [][NextRequests]_vars
(***************************************************************************)
(* Claims on the session.                                                  *)
(***************************************************************************)
\* A background task that is in its loop and whose abort flag is not set.
Live(t) == tasks[t].pc \in {<<"read">>, <<"yield">>} /\ ~tasks[t].aborted

\* Task t is the one that took the step.
Stepped(t) == <<tasks'[t].pc, tasks'[t].i>> # <<tasks[t].pc, tasks[t].i>>

\* C31: single writer.  At most one background diff task that is not
\* cancelled exists; a reset (the application goes from the visualizing
\* screen back to the input screen) leaves no task that is not cancelled;
\* and a task whose abort flag is set writes neither a commit's file list
\* nor the tree cache in any later step of its own.
C31_SingleWriter ==
    /\ [](Cardinality({t \in 1..Len(tasks) : Live(t)}) <= 1)
    /\ [][/\ (appState = "visualizing" /\ appState' = "input")
             => \A t \in 1..Len(tasks) : ~Live(t)'
          /\ \A t \in 1..Len(tasks) :
                (tasks[t].aborted /\ Stepped(t))
                => /\ tasks'[t].list = tasks[t].list
                   /\ treeCache' = treeCache]_vars

C33_CommitsImmutable ==
    [][(owner # 0 /\ owner' = owner) => commits' = commits]_vars

\* C35: session-level failure.  fetchCommitsWithFiles fails exactly when
\* the clone fails on the requested branch and, for 'main', on 'master' as
\* well, or when the log cannot be read.  The step in which it fails records
\* an error, returns the application to the input state and leaves the live
\* tree and the author map as they are; the list of a failed request is
\* never shown, and the application is in the visualizing state only for a
\* request that did not fail.
C35_SessionFailure ==
    /\ [](\A t \in 1..Len(tasks) :
            tasks[t].pc = <<"failed">> => owner # t /\ tasks[t].list = <<>>)
    /\ [](appState = "visualizing"
          => owner \in 1..Len(tasks) /\ tasks[owner].pc # <<"failed">>)
    /\ [][\A t \in 1..Len(tasks) :
            /\ (tasks[t].pc # <<"failed">> /\ tasks'[t].pc = <<"failed">>)
               => /\ tasks[t].pc \in {<<"clone", "dev">>, <<"clone", "master">>,
                                      <<"log">>}
                  /\ error' # "null"
                  /\ appState = "loading"
                  /\ appState' = "input"
                  /\ treeRef' = treeRef
                  /\ authorsRef' = authorsRef
                  /\ UNCHANGED <<commits, currentCommitIndex, owner>>
            /\ (tasks[t].pc = <<"clone", "main">> /\ Stepped(t))
               => tasks'[t].pc \in {<<"log">>, <<"clone", "master">>}
            /\ tasks[t].pc = <<"failed">> => tasks'[t].pc = <<"failed">>]_vars

\* The second request of the session has failed on the 'master' fallback.
C35_Witness ==
    /\ Len(tasks) = 2
    /\ tasks[2].pc = <<"failed">>
    /\ error = "clone error"
    /\ appState = "input"
    /\ tasks[1].pc # <<"failed">>

\* C38: playback and seek agree.  Whenever the visualization stands at a
\* commit index k, the live tree and the author map are the ones a seek to k
\* produces: the commits 0..k applied to the empty tree.
C38_PlaybackEqualsSeek ==
    (appState = "visualizing" /\ currentCommitIndex >= 0)
    => LET r == replay(createFileTree, <<>>, 0, currentCommitIndex)
       IN treeRef = r.root /\ authorsRef = r.authors

\* C40: index bounds.  The current commit index is never below -1 nor above
\* the last index of the commit list.  It goes down only by a seek from an
\* index above 0, to an index that is at least 0, or by a reset or a
\* repository load; a skip-back at an index of 0 or less and a skip-forward
\* at the last index change neither the index, the tree, the author map nor
\* the playing flag; a playback tick at the last commit applies no commit,
\* leaves index, tree and author map alone and turns playing off.
C40_IndexBounds ==
    /\ [](-1 <= currentCommitIndex /\ currentCommitIndex <= Len(commits) - 1)
    /\ [][/\ currentCommitIndex' < currentCommitIndex
             => \/ lastOp' \in {"reset", "load"}
                \/ /\ lastOp' = "seek"
                   /\ currentCommitIndex > 0
                   /\ currentCommitIndex' >= 0
          /\ (lastOp # "skipBack" /\ lastOp' = "skipBack")
             => /\ currentCommitIndex <= 0
                /\ UNCHANGED <<currentCommitIndex, treeRef, authorsRef, isPlaying,
                               commits, applied>>
          /\ (lastOp # "skipForward" /\ lastOp' = "skipForward")
             => /\ currentCommitIndex = Len(commits) - 1
                /\ UNCHANGED <<currentCommitIndex, treeRef, authorsRef, isPlaying,
                               commits, applied>>
          /\ (lastOp # "tick" /\ lastOp' = "tick")
             => /\ currentCommitIndex = Len(commits) - 1
                /\ ~isPlaying'
                /\ UNCHANGED <<currentCommitIndex, treeRef, authorsRef, commits,
                               applied>>]_vars

\* In the second repository of the session the playback has reached the
\* last commit, and the tick after it has turned playing off.
C40_Witness ==
    /\ Len(tasks) = 2
    /\ lastOp = "tick"
    /\ ~isPlaying
    /\ currentCommitIndex = Len(commits) - 1
    /\ currentCommitIndex = 2

(***************************************************************************)
(* Claims on the background diff task.                                     *)
(***************************************************************************)
\* The files of a commit's tree as the task reads them: what cannot be read
\* is an empty listing.
ReadTree(commit) == walkTree(commit.tree).files

RECURSIVE LastReadTree(_, _)
\* The tree read for the last commit among the first n whose commit object
\* can be read; the empty tree when there is none.
LastReadTree(list, n) ==
    IF n = 0 THEN <<>>
    ELSE IF list[n].sha \in lostCommits THEN LastReadTree(list, n - 1)
    ELSE ReadTree(list[n])

\* Task t resumes after the reads of an iteration.
Iterates(t) == tasks[t].pc = <<"read">> /\ Stepped(t)

\* C34 as claimed: in the background diff task a commit whose commit object
\* or tree object cannot be read is skipped, its file list and the tree the
\* next commit is diffed against staying as they are.
C34_Claimed_UnreadableSkipped ==
    [][\A t \in 1..Len(tasks) :
          LET commit == tasks[t].list[tasks[t].i + 1]
          IN (/\ Iterates(t)
              /\ \/ commit.sha \in lostCommits
                 \/ commit.tree \in unreadable)
             => /\ tasks'[t].list = tasks[t].list
                /\ tasks'[t].previousTree = tasks[t].previousTree]_vars

\* C34: a missing object never aborts the background diff task.  A commit
\* whose commit object cannot be read is skipped: no file list and no other
\* state of the diff changes.  Any other commit, also one whose tree object
\* cannot be read, gets the diff between the last tree read and its own
\* tree as read (an unreadable tree is an empty listing), and its tree
\* becomes the one the next commit is diffed against.  In both cases the
\* task goes on with the next commit, and it ends only behind the last one
\* unless it is cancelled.
C34_MissingObjects ==
    /\ [](\A t \in 1..Len(tasks) :
            /\ tasks[t].pc \in {<<"read">>, <<"yield">>}
               => tasks[t].previousTree
                    = LastReadTree(tasks[t].list,
                                   IF tasks[t].pc = <<"read">> THEN tasks[t].i
                                   ELSE tasks[t].i + 1)
            /\ tasks[t].pc = <<"done">> => tasks[t].i = Len(tasks[t].list)
            /\ tasks[t].pc = <<"stopped">> => tasks[t].aborted)
    /\ [][\A t \in 1..Len(tasks) :
            LET task == tasks[t]
                commit == task.list[task.i + 1]
            IN Iterates(t)
               => /\ tasks'[t].i \in {task.i, task.i + 1}
                  /\ tasks'[t].pc \in {<<"yield">>, <<"read">>, <<"done">>,
                                       <<"stopped">>}
                  /\ IF commit.sha \in lostCommits
                     THEN /\ tasks'[t].list = task.list
                          /\ tasks'[t].previousTree = task.previousTree
                     ELSE /\ tasks'[t].list =
                               [task.list EXCEPT ![task.i + 1].files =
                                   diffTrees(task.previousTree, ReadTree(commit))]
                          /\ tasks'[t].previousTree = ReadTree(commit)]_vars

\* The task has gone through a history with a lost commit, after which the
\* next commit got its changes, and with a commit whose tree cannot be read
\* and that got a file list all the same.
C34_Witness ==
    /\ tasks[1].pc = <<"done">>
    /\ ~tasks[1].aborted
    /\ \E k \in 1..(Len(tasks[1].list) - 1) :
          /\ tasks[1].list[k].sha \in lostCommits
          /\ tasks[1].list[k].files = <<>>
          /\ tasks[1].list[k + 1].files # <<>>
    /\ \E k \in 1..Len(tasks[1].list) :
          /\ tasks[1].list[k].tree \in unreadable
          /\ tasks[1].list[k].files # <<>>

\* The background task of the history shown has left its loop.
Finished == tasks[1].pc \in {<<"done">>, <<"stopped">>}

StampOf(root, filepath) ==
    LET found == findFileInTree(root, filepath)
    IN IF found = <<>> THEN "absent" ELSE found[1].status

\* The change steps the state machine of a node allows, from the stamp the
\* path had before the commit: 'added' on a path without a node, on a node
\* never stamped (a directory made on the way to a file) or on a removed
\* node; 'modified' and 'removed' on an added or modified node.
StampStep(before, status) ==
    CASE status = "added" -> before \in {"absent", Undefined, "removed"}
      [] status \in {"modified", "removed"} -> before \in {"added", "modified"}
      [] OTHER -> FALSE

LoadStepped(l) == loads'[l].pc # loads[l].pc

\* The continuation of prefetch p ran in this step.
PrefetchStepped(p) ==
    <<prefetches'[p].pc, prefetches'[p].k>> # <<prefetches[p].pc, prefetches[p].k>>

\* The version of the file the diff of the commit at index starts from: that
\* of the commit before it in fileCommits, null without one.
PreviousVersion(filepath, index) ==
    LET list == fileCommits(filepath)
        at == findCommitIndex(list, index)
    IN IF at > 0 THEN fileAtCommit(commits[list[at] + 1].sha, filepath) ELSE <<>>

\* The load of the latest request is the one the viewer holds; once it has
\* run to its end the viewer is not loading and shows its result: the
\* content of the file at the current commit, or that the file is not there,
\* and the previous version of the file; or that the load failed.
LatestShown ==
    filePath # <<>> =>
        /\ abortControllerRef = Len(loads)
        /\ abortControllerRef > 0
        /\ LET load == loads[abortControllerRef]
           IN /\ load.filePath = filePath[1]
              /\ load.index = currentCommitIndex
              /\ ~load.aborted
              /\ load.pc = "done" =>
                    /\ ~loading
                    /\ IF fileAtCommit(load.sha, load.filePath) = <<>>
                       THEN viewerError = "File not found at this commit"
                       ELSE /\ viewerError = "null"
                            /\ fileContent = fileAtCommit(load.sha, load.filePath)
                    /\ previousContent = PreviousVersion(load.filePath, load.index)
              /\ load.pc = "failed" =>
                    /\ ~loading
                    /\ viewerError = "Failed to load file content"

\* C36: a load or prefetch that was cancelled by a change of the viewed file
\* or of the current commit changes nothing of the displayed content, the
\* previous content, the error, the loading flag and the content cache when
\* its read settles afterwards; a prefetch, failed or not, never touches the
\* error nor anything else the viewer shows; the only load that updates the
\* viewer is the one of the latest request, and it is its result that is
\* shown.
C36_SupersededDiscarded ==
    /\ []LatestShown
    /\ [][/\ \A l \in 1..Len(loads) :
                 LoadStepped(l) =>
                     /\ loads[l].aborted => Shown' = Shown
                     /\ Shown' # Shown => l = abortControllerRef
           /\ \A p \in 1..Len(prefetches) :
                 PrefetchStepped(p) =>
                     /\ UNCHANGED <<fileContent, previousContent, loading,
                                    viewerError>>
                     /\ prefetches[p].aborted => fileCache' = fileCache]_vars

\* The read of a cancelled load has settled and was dropped, a read of a
\* prefetch has failed, and the viewer shows the file of the latest request
\* without an error.
C36_Witness ==
    /\ \E l \in 1..Len(loads) : loads[l].aborted /\ loads[l].pc = "stopped"
    /\ \E p \in 1..Len(prefetches) : prefetches[p].threw
    /\ filePath # <<>>
    /\ loads[abortControllerRef].pc = "done"
    /\ viewerError = "null"
    /\ fileContent = fileAtCommit(currentCommitIndex, filePath[1])
    /\ fileContent # <<>>
====
